---- MODULE Spec2Model ----
(***************************************************************************)
(* SyncWave: the fan-out engine (audio_sync.SyncEngine), driven either     *)
(* through its API (start/stop) or by the window's Start/Stop Sync button  *)
(* (SyncWave.TwinSyncApp._toggle_sync).                                    *)
(***************************************************************************)
EXTENDS Integers, Sequences, FiniteSets, TLC

(***************************************************************************)
(* Bounds of the model.                                                    *)
(***************************************************************************)
\* worker threads that can be alive at the same time
MaxWorkers == 2
\* blocks one capture stream delivers before its reads only raise
MaxBlocks == 2
\* longest list of sinks handed to start / longest list of output strips
MaxSinks == 2
\* sink writes that raise during one engine run
MaxWriteFails == 1

(***************************************************************************)
(* Program constants.                                                      *)
(***************************************************************************)
BUFFER_SIZE == 4096
FallbackRate == 44100

\* endpoints of the host audio system (opaque handles)
InputChoices == { [index |-> "mic", loopback |-> FALSE],
                  [index |-> "mix", loopback |-> TRUE] }
OutDevs == {"spkA", "spkB"}
NoDevice == "none"

\* get_device_info_by_index / get_default_wasapi_loopback: what the host reports
DeviceInfo(d) ==
    CASE d = "mic"  -> [maxInputChannels |-> 1, defaultSampleRate |-> 48000]
      [] d = "mix"  -> [maxInputChannels |-> 0, defaultSampleRate |-> 44100]
      [] d = "loop" -> [maxInputChannels |-> 2, defaultSampleRate |-> 44100]
      [] OTHER      -> [maxInputChannels |-> 0, defaultSampleRate |-> 44100]

\* slider positions of an output strip (volume 0..100 %, delay 0..2000 ms)
Profiles == { [volume |-> 100, delay |-> 0], [volume |-> 50, delay |-> 100] }
\* values of the (constant-amplitude) captured block
CaptureSamples == {10000}

(***************************************************************************)
(* Gain stage: (audio_array * volume_factor).astype(np.int16), with        *)
(* volume_factor = volumes[i] / 100.0 an IEEE-754 double.                  *)
(***************************************************************************)
Abs(x) == IF x < 0 THEN -x ELSE x
Sign(x) == IF x < 0 THEN -1 ELSE 1

RECURSIVE Pow2(_)
Pow2(n) == IF n <= 0 THEN 1 ELSE 2 * Pow2(n - 1)

RECURSIVE Log2Floor(_)
Log2Floor(n) == IF n <= 1 THEN 0 ELSE 1 + Log2Floor(n \div 2)

\* The double nearest to g/100 is M / 2^(53+k) with 2^52 <= M < 2^53:
\* k doublings bring g/100 into [0.5, 1).
RECURSIVE FactorShift(_)
FactorShift(g) == IF g <= 0 \/ g >= 50 THEN 0 ELSE 1 + FactorShift(2 * g)

\* g * 2^(53+k) - 100 * M for g = 1..99: positive when the double lies
\* below g/100, negative when above, 0 when g/100 is a double.
FactorErr ==
    << -12, -12,  32, -12, -40,  32, -48, -12,  24, -40,  -4,
        32, -16, -48,  20, -12, -44,  24,  -8, -40,  28,  -4,
       -36,  32,   0, -16, -32, -48,  36,  20,   4, -12, -28,
       -44,  40,  24,   8,  -8, -24, -40,  44,  28,  12,  -4,
       -20, -36,  48,  32,  16,   0,  -8, -16, -24, -32, -40,
       -48,  44,  36,  28,  20,  12,   4,  -4, -12, -20, -28,
       -36, -44,  48,  40,  32,  24,  16,   8,   0,  -8, -16,
       -24, -32, -40, -48,  44,  36,  28,  20,  12,   4,  -4,
       -12, -20, -28, -36, -44,  48,  40,  32,  24,  16,   8 >>

\* The double product x * volume_factor falls just below the integer
\* x*g/100 (so the cast truncates to one less in magnitude): the factor is
\* below g/100 by more than half the spacing of doubles under the product.
ProductShort(x, g) ==
    LET p == Abs(x * g)
        N == p \div 100
        L == Log2Floor(N)
        gap == g * Pow2(FactorShift(g)) * Pow2(L)
    IN  /\ g \in 1..99
        /\ p > 0
        /\ p % 100 = 0
        /\ FactorErr[g] > 0
        /\ IF N = Pow2(L) THEN 2 * N * FactorErr[g] > gap
                          ELSE N * FactorErr[g] > gap

\* a plausible slip: the factor computed with integer division
ApplyVolumeIntDiv(x, g) == x * (g \div 100)

\* astype(np.int16) of x * (g / 100.0): truncation toward zero
ApplyVolume(x, g) ==
    LET t == Sign(x * g) * (Abs(x * g) \div 100)
    IN  IF ProductShort(x, g) THEN t - Sign(x * g) ELSE t

\* what stream.write receives for one sample of the block
\* (volume_factor == 1.0: the captured bytes themselves)
EmittedSample(x, g) == IF g = 100 THEN x ELSE ApplyVolume(x, g)

(***************************************************************************)
(* State.                                                                  *)
(***************************************************************************)
VARIABLES
    is_running,          \* SyncEngine.is_running
    thread,              \* SyncEngine.thread: slot of the newest worker, 0 = None
    input_device_index,  \* SyncEngine.input_device_index
    output_indices,      \* SyncEngine.output_indices
    use_loopback,        \* SyncEngine.use_loopback
    volumes,             \* SyncEngine.volumes
    delays,              \* SyncEngine.delays
    network_server,      \* SyncEngine.network_server is not None
    srv_is_running,      \* NetworkServer.is_running
    workers,             \* per slot: the locals of one run of SyncEngine._loop
    caller_pc,           \* the calling thread: "ready", or "joining" inside stop()
    output_strips,       \* TwinSyncApp.output_strips as read by the last start
    gain_case,           \* one application of the gain stage
    clients,             \* NetworkServer.clients
    client_info,         \* NetworkServer.client_info
    handlers,            \* per connection: position of its _handle_client thread
    srv_closed,          \* sockets the server has closed
    sock_in,             \* per connection: bytes sent to the server, not yet read
    sock_out,            \* per connection: what the server wrote, one entry per sendall
    broadcast_log,              \* the blocks broadcast_audio was called with
    peer_closed,         \* per connection: the client end has closed its socket
    is_connected,        \* NetworkClient.is_connected
    buffer,              \* NetworkClient._receive_loop: buffer
    audio_queue,         \* NetworkClient.audio_queue
    rd,                  \* per connection: bytes of sock_out the client has read
    ctl_sent,            \* per connection: the control messages the client sent
    cal,                 \* one run of CalibrationEngine.calibrate_device
    lock,                \* NetworkServer.lock: the thread that holds it, or "free"
    server_socket,       \* NetworkServer.server_socket: "none", "listening", "closed"
    start_result,        \* what the last call of NetworkServer.start returned
    accept_thread,       \* position of _accept_connections and the socket it holds
    stopper,             \* position of the thread inside NetworkServer.stop
    broadcaster,         \* position of the engine worker inside broadcast_audio
    sending,             \* per connection: rest of the line its handler is sending
    receiver,            \* per connection: the client's _receive_loop thread
    is_playing,          \* NetworkClient.is_playing
    output_stream,       \* NetworkClient.output_stream is an open stream
    players,             \* per connection: its _playback_loop threads
    written,             \* per connection: what was written to output streams
    enqueued             \* per connection: what the receive loop has enqueued

server_vars == << clients, client_info, handlers, srv_closed, sock_in, sock_out, broadcast_log >>
client_vars == << peer_closed, is_connected, buffer, audio_queue, rd, ctl_sent >>
net_vars == << server_vars, client_vars >>
play_vars == << receiver, is_playing, output_stream, players, written, enqueued >>
thread_vars == << lock, server_socket, start_result, accept_thread, stopper,
                  broadcaster, sending >>

vars == << is_running, thread, input_device_index, output_indices, use_loopback,
           volumes, delays, network_server, srv_is_running, workers, caller_pc,
           output_strips, gain_case, net_vars, cal, thread_vars, play_vars >>

engine_fields == << input_device_index, output_indices, use_loopback, volumes, delays >>

Slots == 1..MaxWorkers
NoThread == 0

NoData == [seq |-> -1, sample |-> 0]

\* the locals of _loop before the thread exists / after it has ended
IdleWorker ==
    [ pc          |-> "idle",
      in_stream   |-> FALSE,      \* in_stream is an open stream
      channels    |-> 0,
      sample_rate |-> 0,
      todo        |-> << >>,      \* rest of the list iterated at line 154
      out_streams |-> << >>,      \* open output streams, with what each was written
      data        |-> NoData,     \* the block read in this iteration
      i           |-> 0,          \* enumerate index into out_streams (1-based)
      nread       |-> 0,          \* blocks read from in_stream so far
      wfails      |-> 0,          \* writes that raised so far
      tap         |-> << >> ]     \* blocks passed to broadcast_audio in this run

SinkCfgs ==
    { [device |-> d, volume |-> p.volume, delay |-> p.delay] : d \in OutDevs, p \in Profiles }
SinkLists == UNION { [1..n -> SinkCfgs] : n \in 0..MaxSinks }

Alive(w) == workers[w].pc # "idle"
LiveWorkers == { w \in Slots : Alive(w) }

\* the slot of the Thread object start creates: the lowest free one
FreeSlot == CHOOSE w \in Slots : ~Alive(w) /\ \A v \in Slots : ~Alive(v) => w <= v

RECURSIVE SeqMap(_, _)
\* [op(s[1]), ..] for the three projections used below
SeqMap(s, field) ==
    IF s = << >> THEN << >>
    ELSE << CASE field = "device" -> s[1].device
              [] field = "volume" -> s[1].volume
              [] OTHER            -> s[1].delay >> \o SeqMap(Tail(s), field)

Repeat(x, n) == [k \in 1..n |-> x]

InSeq(x, s) == \E k \in 1..Len(s) : s[k] = x

RECURSIVE Dedup(_)
\* list(dict.fromkeys(s)): first occurrences, in order
Dedup(s) ==
    IF s = << >> THEN << >>
    ELSE LET init == Dedup(SubSeq(s, 1, Len(s) - 1))
             last == s[Len(s)]
         IN  IF InSeq(last, init) THEN init ELSE Append(init, last)

TypeOK ==
    /\ is_running \in BOOLEAN
    /\ thread \in Slots \cup {NoThread}
    /\ caller_pc \in {"ready", "joining"}
    /\ srv_is_running \in BOOLEAN
    /\ network_server \in BOOLEAN
    /\ \A w \in Slots :
          workers[w].pc \in {"idle", "open_in", "begin_out", "open_out", "test",
                             "read", "write", "tap", "cleanup"}

InitEngine ==
    /\ is_running = FALSE
    /\ thread = NoThread
    /\ input_device_index = NoDevice
    /\ output_indices = << >>
    /\ use_loopback = FALSE
    /\ volumes = << >>
    /\ delays = << >>
    /\ srv_is_running = FALSE
    /\ workers = [w \in Slots |-> IdleWorker]
    /\ caller_pc = "ready"
    /\ output_strips = << >>

NoGainCase == [sample |-> 0, volume |-> 100, out |-> 0, done |-> FALSE]

(***************************************************************************)
(* SyncEngine.start and SyncEngine.stop.                                   *)
(***************************************************************************)
\* a start that keeps the volumes of an earlier start
StartBodyKeepVolumes(input_index, indices, loopback, vols, dels) ==
    /\ input_device_index' = input_index
    /\ output_indices' = indices
    /\ use_loopback' = loopback
    /\ volumes' = IF volumes # << >> THEN volumes ELSE vols
    /\ delays' = IF dels # << >> THEN dels ELSE Repeat(0, Len(indices))
    /\ is_running' = TRUE
    /\ thread' = FreeSlot
    /\ workers' = [workers EXCEPT ![FreeSlot] = [IdleWorker EXCEPT !.pc = "open_in"]]

\* the body of start: no check of the current state, a new thread every call
StartBody(input_index, indices, loopback, vols, dels) ==
    /\ input_device_index' = input_index
    /\ output_indices' = indices
    /\ use_loopback' = loopback
    /\ volumes' = IF vols # << >> THEN vols ELSE Repeat(100, Len(indices))
    /\ delays' = IF dels # << >> THEN dels ELSE Repeat(0, Len(indices))
    /\ is_running' = TRUE
    /\ thread' = FreeSlot
    /\ workers' = [workers EXCEPT ![FreeSlot] = [IdleWorker EXCEPT !.pc = "open_in"]]

\* a stop that clears the flag and returns without joining
StopBodyNoJoin ==
    /\ is_running' = FALSE
    /\ UNCHANGED << caller_pc, thread, engine_fields, workers >>

\* the first lines of stop: clear the flag, then join if a thread was ever made
StopBody ==
    /\ is_running' = FALSE
    /\ caller_pc' = IF thread # NoThread THEN "joining" ELSE "ready"
    /\ UNCHANGED << thread, engine_fields, workers >>

\* the direct calls of start: volumes and delays left out (None), a
\* duplicated endpoint, a quiet and delayed sink
StartCalls ==
    { [index |-> "mix", loopback |-> TRUE, indices |-> << "spkA" >>,
       volumes |-> << >>, delays |-> << >>],
      [index |-> "mix", loopback |-> TRUE, indices |-> << "spkA", "spkA" >>,
       volumes |-> << 100, 50 >>, delays |-> << 0, 100 >>],
      [index |-> "mic", loopback |-> FALSE, indices |-> << "spkB" >>,
       volumes |-> << 50 >>, delays |-> << 100 >>] }

\* engine.start(...) called directly, in any state of the engine
Start(call) ==
    /\ caller_pc = "ready"
    /\ \E w \in Slots : ~Alive(w)
    /\ StartBody(call.index, call.indices, call.loopback, call.volumes, call.delays)
    /\ UNCHANGED << network_server, srv_is_running, caller_pc, output_strips, gain_case, net_vars, cal, play_vars, thread_vars >>

\* engine.stop() called directly
Stop ==
    /\ caller_pc = "ready"
    /\ StopBody
    /\ UNCHANGED << network_server, srv_is_running, output_strips, gain_case, net_vars, cal, play_vars, thread_vars >>

\* thread.join() returns once the newest worker has ended
StopJoin ==
    /\ caller_pc = "joining"
    /\ ~Alive(thread)
    /\ caller_pc' = "ready"
    /\ UNCHANGED << is_running, thread, engine_fields, network_server, srv_is_running,
                    workers, output_strips, gain_case, net_vars, cal, play_vars, thread_vars >>

(***************************************************************************)
(* TwinSyncApp._toggle_sync: the Start/Stop Sync button.                   *)
(***************************************************************************)
RECURSIVE Matched(_)
\* the strips whose combo text names a device of the router
Matched(strips) ==
    IF strips = << >> THEN << >>
    ELSE (IF strips[1].device = NoDevice THEN << >> ELSE << strips[1] >>)
         \o Matched(Tail(strips))

\* what the button reads: the strips when it starts, nothing when it stops
StripLists == IF is_running THEN { << >> } ELSE SinkLists

ToggleSync(choice, strips) ==
    /\ caller_pc = "ready"
    /\ IF ~is_running
       THEN LET found == Matched(strips)
                unique == Dedup(SeqMap(found, "device"))
            IN  /\ output_strips' = strips
                /\ IF unique = << >>
                   THEN UNCHANGED << is_running, thread, engine_fields, workers >>
                   ELSE /\ \E w \in Slots : ~Alive(w)
                        /\ StartBody(choice.index, unique, choice.loopback,
                                     SeqMap(found, "volume"), SeqMap(found, "delay"))
                /\ UNCHANGED caller_pc
       ELSE /\ StopBody
            /\ UNCHANGED output_strips
    /\ UNCHANGED << network_server, srv_is_running, gain_case, net_vars, cal, play_vars, thread_vars >>

(***************************************************************************)
(* SyncEngine._loop, one run per worker slot w.                            *)
(***************************************************************************)
Step(w, rec) ==
    /\ workers' = [workers EXCEPT ![w] = rec]
    /\ UNCHANGED << is_running, thread, engine_fields, network_server, srv_is_running,
                    caller_pc, output_strips, gain_case, net_vars, cal, play_vars, thread_vars >>

\* what the finally block still uses: the streams that were opened
Leaving(me) ==
    [IdleWorker EXCEPT !.pc = "cleanup",
                       !.in_stream = me.in_stream,
                       !.channels = me.channels,
                       !.sample_rate = me.sample_rate,
                       !.out_streams = [k \in 1..Len(me.out_streams) |->
                                          [me.out_streams[k] EXCEPT !.log = << >>]]]

\* an exception reaches the outer except: on to the finally block
Raised(w) == Leaving(workers[w])

\* lines 93-151: resolve the capture endpoint and open in_stream
OpenInput(w) ==
    /\ workers[w].pc = "open_in"
    /\ \E lookup \in {"default", "manual", "raise"}, opened \in {"rate", "fallback", "raise"} :
          \* get_default_wasapi_loopback is tried only with use_loopback
          /\ (lookup = "default") => use_loopback
          /\ LET dev == IF lookup = "default" THEN "loop" ELSE input_device_index
                 info == DeviceInfo(dev)
                 ch == IF info.maxInputChannels = 0 THEN 2 ELSE info.maxInputChannels
             IN  Step(w,
                   CASE lookup = "raise" -> Raised(w)
                     [] lookup # "raise" /\ opened = "raise" ->
                          Raised(w)
                     [] lookup # "raise" /\ opened = "rate" ->
                          [workers[w] EXCEPT !.pc = "begin_out",
                                             !.in_stream = TRUE, !.channels = ch,
                                             !.sample_rate = info.defaultSampleRate]
                     [] OTHER ->
                          [workers[w] EXCEPT !.pc = "begin_out",
                                             !.in_stream = TRUE, !.channels = 2,
                                             !.sample_rate = FallbackRate])

\* line 154: the for statement takes the list that is in output_indices now
BeginOutputs(w) ==
    /\ workers[w].pc = "begin_out"
    /\ Step(w, [workers[w] EXCEPT !.todo = output_indices,
                                  !.pc = IF output_indices = << >> THEN "test"
                                         ELSE "open_out"])

NewStream(dev, rate) == [device |-> dev, rate |-> rate, channels |-> 2, log |-> << >>]

\* lines 155-183: one pass of the for loop over the output indices
OpenOutput(w) ==
    /\ workers[w].pc = "open_out"
    /\ LET me == workers[w]
           dev == Head(me.todo)
           rest == Tail(me.todo)
           next == IF rest = << >> THEN "test" ELSE "open_out"
       IN  \E outcome \in {"rate", "fallback", "dropped", "raise"} :
              Step(w,
                CASE outcome = "rate" ->
                       [me EXCEPT !.todo = rest, !.pc = next,
                          !.out_streams = Append(@, NewStream(dev, me.sample_rate))]
                  [] outcome = "fallback" ->
                       [me EXCEPT !.todo = rest, !.pc = next,
                          !.out_streams = Append(@, NewStream(dev, FallbackRate))]
                  [] outcome = "dropped" ->
                       [me EXCEPT !.todo = rest, !.pc = next]
                  \* get_device_info_by_index(output_idx) raises
                  [] OTHER -> Raised(w))

\* line 187: while self.is_running
LoopTest(w) ==
    /\ workers[w].pc = "test"
    /\ Step(w, IF is_running THEN [workers[w] EXCEPT !.pc = "read"]
               ELSE Leaving(workers[w]))

\* a capture stream that delivers the same block again
NextBlockStale(n, sample) == [seq |-> IF n > 0 THEN n - 1 ELSE 0, sample |-> sample]

\* the capture stream numbers the blocks it delivers
NextBlock(n, sample) == [seq |-> n, sample |-> sample]

\* lines 189-192: read one block; a read error ends the run
ReadBlock(w) ==
    /\ workers[w].pc = "read"
    /\ \/ /\ workers[w].nread < MaxBlocks
          /\ \E sample \in CaptureSamples :
                Step(w, [workers[w] EXCEPT
                           !.data = NextBlock(workers[w].nread, sample),
                           !.nread = @ + 1,
                           !.i = 1,
                           !.pc = IF workers[w].out_streams = << >> THEN "tap"
                                  ELSE "write"])
       \/ Step(w, Raised(w))

\* a write error that escapes to the outer except
WriteResultFatal(me, outcome) ==
    IF outcome = "written"
    THEN [me EXCEPT !.out_streams[me.i].log =
                        Append(@, [seq |-> me.data.seq,
                                   sample |-> EmittedSample(me.data.sample,
                                                            volumes[me.i])]),
                    !.i = @ + 1,
                    !.pc = IF me.i = Len(me.out_streams) THEN "tap" ELSE "write"]
    ELSE Leaving(me)

\* what one pass of the for loop at lines 195-208 does with stream i:
\* "written", or "skipped" when volumes[i] or stream.write raised
WriteResult(me, outcome) ==
    LET next == IF me.i = Len(me.out_streams) THEN "tap" ELSE "write"
        block == [seq |-> me.data.seq,
                  sample |-> EmittedSample(me.data.sample, volumes[me.i])]
    IN  IF outcome = "written"
        THEN [me EXCEPT !.out_streams[me.i].log = Append(@, block),
                        !.i = @ + 1, !.pc = next]
        ELSE [me EXCEPT !.i = @ + 1, !.pc = next,
                        !.wfails = IF me.i <= Len(volumes) THEN @ + 1 ELSE @]

WriteBlock(w) ==
    /\ workers[w].pc = "write"
    /\ \/ /\ workers[w].i <= Len(volumes)
          /\ Step(w, WriteResult(workers[w], "written"))
       \/ /\ workers[w].i <= Len(volumes)
          /\ workers[w].wfails < MaxWriteFails
          /\ Step(w, WriteResult(workers[w], "skipped"))
       \* self.volumes[i]: IndexError, caught like a write error
       \/ /\ workers[w].i > Len(volumes)
          /\ Step(w, WriteResult(workers[w], "skipped"))

\* a tap that is handed the copy written to the last sink
BroadcastAdjusted(w) ==
    /\ workers[w].pc = "tap"
    /\ LET me == workers[w]
           last == Len(me.out_streams)
           sent == IF last > 0 /\ last <= Len(volumes)
                   THEN [me.data EXCEPT !.sample = EmittedSample(@, volumes[last])]
                   ELSE me.data
       IN  Step(w, [me EXCEPT !.pc = "test",
                              !.tap = IF network_server /\ srv_is_running
                                      THEN Append(@, sent) ELSE @])

\* lines 211-212: hand the captured block to the server if it is running
Broadcast(w) ==
    /\ workers[w].pc = "tap"
    /\ Step(w, [workers[w] EXCEPT
                  !.pc = "test",
                  !.tap = IF network_server /\ srv_is_running
                          THEN Append(@, workers[w].data) ELSE @])

\* a finally block that ends the thread with its streams left open
CleanupKeepStreams(w) ==
    /\ workers[w].pc = "cleanup"
    /\ Step(w, [workers[w] EXCEPT !.pc = "idle"])

\* lines 219-233: close every stream that was opened; the thread ends
Cleanup(w) ==
    /\ workers[w].pc = "cleanup"
    /\ Step(w, IdleWorker)

WorkerStep(w) ==
    \/ OpenInput(w)
    \/ BeginOutputs(w)
    \/ OpenOutput(w)
    \/ LoopTest(w)
    \/ ReadBlock(w)
    \/ WriteBlock(w)
    \/ Broadcast(w)
    \/ Cleanup(w)

(***************************************************************************)
(* The wire: bytes, JSON control lines and length-prefixed audio packets.  *)
(***************************************************************************)
\* connections (client sockets) a run can see
MaxClients == 2
\* calls of broadcast_audio in a run
MaxBroadcasts == 2
\* control messages a client sends after its set_name
MaxControl == 1

Conns == 1..MaxClients
\* start_playback calls that start a thread, for each client
MaxPlays == 2

Newline == 10
LBrace == 123
RBrace == 125

\* the "type" values on the wire, each written as one byte of the JSON text
TypeCodes == [ping |-> 112, status |-> 115, set_name |-> 110, welcome |-> 119,
              pong |-> 111, hello |-> 104]
TypeOf(code) == CHOOSE t \in DOMAIN TypeCodes : TypeCodes[t] = code
\* client names, each written as one byte of the JSON text; 0 = no "name" key
NoName == 0
ClientNames == {65, 66}
NameOf(c) == 64 + c
\* message.get('name', 'Unknown')
UnknownName == 85
\* f"Client {address[0]}"
DefaultName(c) == 48 + c
Address(c) == << 100 + c, 5000 + c >>

Msg(t) == [type |-> t, name |-> NoName]
SetName(n) == [type |-> "set_name", name |-> n]

\* json.dumps(data).encode('utf-8'): an object with a "type" key and, for
\* set_name, a "name" key; the text holds no newline
JsonDumps(m) ==
    << LBrace, TypeCodes[m.type] >>
       \o (IF m.name = NoName THEN << >> ELSE << m.name >>) \o << RBrace >>

\* json.loads skips white space around the one value it parses
RECURSIVE LStrip(_)
LStrip(b) == IF b # << >> /\ Head(b) = Newline THEN LStrip(Tail(b)) ELSE b
RECURSIVE RStrip(_)
RStrip(b) == IF b # << >> /\ b[Len(b)] = Newline
             THEN RStrip(SubSeq(b, 1, Len(b) - 1)) ELSE b

\* json.loads(text): the value, or ok = FALSE where it raises (empty text,
\* an incomplete object, extra data after the value)
JsonLoads(b) ==
    LET t == RStrip(LStrip(b))
        codes == { TypeCodes[k] : k \in DOMAIN TypeCodes }
        good == /\ Len(t) \in {3, 4}
                /\ t[1] = LBrace
                /\ t[Len(t)] = RBrace
                /\ t[2] \in codes
                /\ Len(t) = 4 => t[3] \in ClientNames
    IN  IF good
        THEN [ok |-> TRUE,
              msg |-> [type |-> TypeOf(t[2]),
                       name |-> IF Len(t) = 4 THEN t[3] ELSE NoName]]
        ELSE [ok |-> FALSE, msg |-> Msg("hello")]

\* struct.pack('I', n) on a little-endian machine
Pack(n) == << n % 256, (n \div 256) % 256, (n \div 65536) % 256,
              (n \div 16777216) % 256 >>
\* struct.unpack('I', b)[0]
Unpack(b) == b[1] + 256 * b[2] + 65536 * b[3] + 16777216 * b[4]

\* audio_data.tobytes() of the blocks handed to broadcast_audio: one int16
\* sample each, low byte first
PcmBlocks == { << 1, 0 >>, << 10, 0 >> }

\* line 254
Packet(audio_bytes) == Pack(Len(audio_bytes)) \o audio_bytes

Line(m) == JsonDumps(m) \o << Newline >>

RECURSIVE Flatten(_)
Flatten(writes) == IF writes = << >> THEN << >>
                   ELSE Head(writes).bytes \o Flatten(Tail(writes))

\* the bytes the server wrote to connection c, and those not read yet
Wire(c) == Flatten(sock_out[c])
Unread(c) == SubSeq(Wire(c), rd[c] + 1, Len(Wire(c)))

RECURSIVE Payloads(_)
Payloads(writes) ==
    IF writes = << >> THEN << >>
    ELSE (IF Head(writes).kind = "audio"
          THEN << SubSeq(Head(writes).bytes, 5, Len(Head(writes).bytes)) >>
          ELSE << >>) \o Payloads(Tail(writes))

(***************************************************************************)
(* NetworkServer.                                                          *)
(***************************************************************************)
NoInfo == [d \in {} |-> 0]

InitServer ==
    /\ clients = << >>
    /\ client_info = NoInfo
    /\ handlers = [c \in Conns |-> "none"]
    /\ srv_closed = {}
    /\ sock_in = [c \in Conns |-> << >>]
    /\ sock_out = [c \in Conns |-> << >>]
    /\ broadcast_log = << >>

Listed(list) == { list[k] : k \in 1..Len(list) }

RECURSIVE Without(_, _)
Without(list, gone) ==
    IF list = << >> THEN << >>
    ELSE (IF Head(list) \in gone THEN << >> ELSE << Head(list) >>)
         \o Without(Tail(list), gone)

\* del self.client_info[client] for every client in gone
ForgetNone(info, gone) == info

Forget(info, gone) == [d \in DOMAIN info \ gone |-> info[d]]

\* what a sendall on the server's socket of c can do: a socket the server
\* closed raises; one whose peer has gone raises or still takes the bytes
SendOutcomes(c) ==
    IF c \in srv_closed THEN {"raise"}
    ELSE IF peer_closed[c] THEN {"raise", "sent"}
    ELSE {"sent"}

\* close() on the server's socket: what the client sent and the server did
\* not read is thrown away
Discarded(inq, gone) == [c \in Conns |-> IF c \in gone THEN << >> ELSE inq[c]]

Written(out, c, kind, bytes) ==
    [out EXCEPT ![c] = Append(@, [kind |-> kind, bytes |-> bytes])]

\* lines 33-47: the socket listens and the accept thread runs
ServerStart ==
    /\ ~srv_is_running
    /\ srv_is_running' = TRUE
    /\ UNCHANGED << is_running, thread, engine_fields, network_server, workers,
                    caller_pc, output_strips, gain_case, net_vars, cal, play_vars, thread_vars >>

\* lines 61-80: every client socket and the listening socket are closed;
\* connections still waiting in its backlog are reset
ServerStop ==
    /\ srv_is_running
    /\ srv_is_running' = FALSE
    /\ LET waiting == { c \in Conns : handlers[c] = "none" /\ ctl_sent[c] # << >> }
       IN  /\ srv_closed' = srv_closed \cup Listed(clients) \cup waiting
           /\ handlers' = [c \in Conns |-> IF c \in waiting THEN "done"
                                           ELSE handlers[c]]
    /\ clients' = << >>
    /\ client_info' = NoInfo
    /\ sock_in' = Discarded(sock_in, Listed(clients))
    /\ UNCHANGED << is_running, thread, engine_fields, network_server, workers,
                    caller_pc, output_strips, gain_case, sock_out, broadcast_log,
                    client_vars, cal, play_vars, thread_vars >>

\* time.time() at the accept: later accepts read later times
Now == Cardinality({ c \in Conns : handlers[c] # "none" }) + 1

\* lines 137-156: one pass of the accept loop
Accept(c) ==
    /\ srv_is_running
    /\ handlers[c] = "none"
    /\ ctl_sent[c] # << >>
    /\ clients' = Append(clients, c)
    /\ client_info' = (c :> [address |-> Address(c), connected_at |-> Now,
                             name |-> DefaultName(c)]) @@ client_info
    /\ handlers' = [handlers EXCEPT ![c] = "welcome"]
    /\ UNCHANGED << is_running, thread, engine_fields, network_server, srv_is_running,
                    workers, caller_pc, output_strips, gain_case, srv_closed,
                    sock_in, sock_out, broadcast_log, client_vars, cal, play_vars, thread_vars >>

\* lines 229-235: _send_json; an error of sendall is logged and dropped
SendJson(out, c, m, outcome) ==
    IF outcome = "sent" THEN Written(out, c, "json", Line(m)) ELSE out

\* lines 166-174: the welcome message, then the first test of the while loop
HandlerWelcome(c) ==
    /\ handlers[c] = "welcome"
    /\ \E outcome \in SendOutcomes(c) :
          sock_out' = SendJson(sock_out, c, Msg("welcome"), outcome)
    /\ handlers' = [handlers EXCEPT ![c] = IF srv_is_running THEN "recv"
                                           ELSE "finally"]
    /\ UNCHANGED << is_running, thread, engine_fields, network_server, srv_is_running,
                    workers, caller_pc, output_strips, gain_case, clients,
                    client_info, srv_closed, sock_in, broadcast_log, client_vars, cal, play_vars, thread_vars >>

\* a handler that answers every message it does not know
HandleClientMessageNack(c, message, info) ==
    IF message.type = "set_name" /\ c \in DOMAIN info
    THEN [reply |-> << >>,
          info |-> [info EXCEPT ![c].name = IF message.name = NoName
                                            THEN UnknownName ELSE message.name]]
    ELSE [reply |-> << Msg("pong") >>, info |-> info]

\* lines 208-227: the replies to send and the new client_info
\* (no client of this repository sends a status message with data)
HandleClientMessage(c, message, info) ==
    CASE message.type = "ping" -> [reply |-> << Msg("pong") >>, info |-> info]
      [] message.type = "status" -> [reply |-> << >>, info |-> info]
      [] message.type = "set_name" ->
            [reply |-> << >>,
             info |-> IF c \in DOMAIN info
                      THEN [info EXCEPT ![c].name = IF message.name = NoName
                                                    THEN UnknownName
                                                    ELSE message.name]
                      ELSE info]
      [] OTHER -> [reply |-> << >>, info |-> info]

\* lines 174-189: one recv(1024) that returns the next k bytes, decoded and
\* parsed as one JSON value; anything json.loads rejects ends the handler
HandlerRecv(c, k) ==
    /\ handlers[c] = "recv"
    /\ srv_is_running
    /\ c \notin srv_closed
    /\ k \in 1..Len(sock_in[c])
    /\ k <= 1024
    /\ LET data == SubSeq(sock_in[c], 1, k)
           r == JsonLoads(data)
           h == HandleClientMessage(c, r.msg, client_info)
       IN  /\ sock_in' = [sock_in EXCEPT ![c] = SubSeq(@, k + 1, Len(@))]
           /\ IF r.ok
              THEN /\ client_info' = h.info
                   /\ IF h.reply = << >>
                      THEN sock_out' = sock_out
                      ELSE \E outcome \in SendOutcomes(c) :
                              sock_out' = SendJson(sock_out, c, h.reply[1], outcome)
                   /\ UNCHANGED handlers
              ELSE /\ handlers' = [handlers EXCEPT ![c] = "finally"]
                   /\ UNCHANGED << client_info, sock_out >>
    /\ UNCHANGED << is_running, thread, engine_fields, network_server, srv_is_running,
                    workers, caller_pc, output_strips, gain_case, clients,
                    srv_closed, broadcast_log, client_vars, cal, play_vars, thread_vars >>

\* lines 174-189: the loop ends: the server stopped, recv returned b'' after
\* the peer closed, or recv raised on a socket the server closed
HandlerBreak(c) ==
    /\ handlers[c] = "recv"
    /\ \/ ~srv_is_running
       \/ c \in srv_closed
       \/ peer_closed[c] /\ sock_in[c] = << >>
    /\ handlers' = [handlers EXCEPT ![c] = "finally"]
    /\ UNCHANGED << is_running, thread, engine_fields, network_server, srv_is_running,
                    workers, caller_pc, output_strips, gain_case, clients,
                    client_info, srv_closed, sock_in, sock_out, broadcast_log,
                    client_vars, cal, play_vars, thread_vars >>

\* lines 193-204: the finally block
HandlerFinally(c) ==
    /\ handlers[c] = "finally"
    /\ clients' = Without(clients, {c})
    /\ client_info' = Forget(client_info, {c})
    /\ srv_closed' = srv_closed \cup {c}
    /\ handlers' = [handlers EXCEPT ![c] = "done"]
    /\ sock_in' = Discarded(sock_in, {c})
    /\ UNCHANGED << is_running, thread, engine_fields, network_server, srv_is_running,
                    workers, caller_pc, output_strips, gain_case,
                    sock_out, broadcast_log, client_vars, cal, play_vars, thread_vars >>

\* lines 237-275: one call of broadcast_audio; failed is the set of clients
\* whose sendall raised
BroadcastAudio(audio_bytes, failed) ==
    /\ clients # << >>
    /\ Len(broadcast_log) < MaxBroadcasts
    /\ failed \subseteq Listed(clients)
    /\ \A c \in Listed(clients) :
          (IF c \in failed THEN "raise" ELSE "sent") \in SendOutcomes(c)
    /\ broadcast_log' = Append(broadcast_log, audio_bytes)
    /\ sock_out' = [c \in Conns |->
                      IF c \in Listed(clients) \ failed
                      THEN Append(sock_out[c], [kind |-> "audio",
                                                bytes |-> Packet(audio_bytes)])
                      ELSE sock_out[c]]
    /\ clients' = Without(clients, failed)
    /\ client_info' = Forget(client_info, failed)
    /\ srv_closed' = srv_closed \cup failed
    /\ sock_in' = Discarded(sock_in, failed)
    /\ UNCHANGED << is_running, thread, engine_fields, network_server, srv_is_running,
                    workers, caller_pc, output_strips, gain_case, handlers,
                    client_vars, cal, play_vars, thread_vars >>

\* lines 277-287: get_connected_clients, in the order the records were added
RECURSIVE InfoList(_, _)
InfoList(info, t) ==
    IF t > MaxClients THEN << >>
    ELSE LET at == { d \in DOMAIN info : info[d].connected_at = t }
         IN  (IF at = {} THEN << >>
              ELSE LET d == CHOOSE x \in at : TRUE
                   IN  << [name |-> info[d].name, address |-> info[d].address[1],
                           connected_at |-> info[d].connected_at] >>)
             \o InfoList(info, t + 1)

get_connected_clients == InfoList(client_info, 1)

(***************************************************************************)
(* NetworkClient.                                                          *)
(***************************************************************************)
InitClients ==
    /\ peer_closed = [c \in Conns |-> FALSE]
    /\ is_connected = [c \in Conns |-> FALSE]
    /\ buffer = [c \in Conns |-> << >>]
    /\ audio_queue = [c \in Conns |-> << >>]
    /\ rd = [c \in Conns |-> 0]
    /\ ctl_sent = [c \in Conns |-> << >>]

\* a _playback_loop thread that was never started
NoPlayer == [pc |-> "none", audio_data |-> << >>]

\* lines 27-35: no receive thread, not playing, no output stream
InitPlay ==
    /\ receiver = [c \in Conns |-> "none"]
    /\ is_playing = [c \in Conns |-> FALSE]
    /\ output_stream = [c \in Conns |-> FALSE]
    /\ players = [c \in Conns |-> [t \in 1..MaxPlays |-> NoPlayer]]
    /\ written = [c \in Conns |-> << >>]
    /\ enqueued = [c \in Conns |-> << >>]

\* the control messages a connected client may send after its set_name
ControlMsgs == { Msg("ping"), Msg("status"), Msg("hello") }

\* lines 75-93: connect to a listening server, start the receive thread,
\* send set_name
Connect(c, client_name) ==
    /\ srv_is_running
    /\ ctl_sent[c] = << >>
    /\ is_connected' = [is_connected EXCEPT ![c] = TRUE]
    /\ sock_in' = [sock_in EXCEPT ![c] = @ \o Line(SetName(client_name))]
    /\ ctl_sent' = [ctl_sent EXCEPT ![c] = << SetName(client_name) >>]
    /\ receiver' = [receiver EXCEPT ![c] = "running"]
    /\ UNCHANGED << is_running, thread, engine_fields, network_server, srv_is_running,
                    workers, caller_pc, output_strips, gain_case, clients,
                    client_info, handlers, srv_closed, sock_out, broadcast_log,
                    peer_closed, buffer, audio_queue, rd, cal, is_playing,
                    output_stream, players, written, enqueued,
                    thread_vars >>

\* lines 113-122: _send_json
ClientSendJson(c, m) ==
    /\ is_connected[c]
    /\ Len(ctl_sent[c]) \in 1..MaxControl
    /\ sock_in' = [sock_in EXCEPT ![c] = IF c \in srv_closed THEN @ ELSE @ \o Line(m)]
    /\ ctl_sent' = [ctl_sent EXCEPT ![c] = Append(@, m)]
    /\ UNCHANGED << is_running, thread, engine_fields, network_server, srv_is_running,
                    workers, caller_pc, output_strips, gain_case, clients,
                    client_info, handlers, srv_closed, sock_out, broadcast_log,
                    peer_closed, is_connected, buffer, audio_queue, rd, cal, play_vars, thread_vars >>

\* a disconnect that leaves playback as it is
DisconnectOnly(c) ==
    /\ is_connected[c]
    /\ is_connected' = [is_connected EXCEPT ![c] = FALSE]
    /\ peer_closed' = [peer_closed EXCEPT ![c] = TRUE]
    /\ audio_queue' = [audio_queue EXCEPT ![c] = << >>]
    /\ UNCHANGED << is_playing, output_stream >>
    /\ UNCHANGED << is_running, thread, engine_fields, network_server, srv_is_running,
                    workers, caller_pc, output_strips, gain_case, server_vars,
                    buffer, rd, ctl_sent, cal, receiver, players, written, enqueued,
                    thread_vars >>

\* lines 100-111: disconnect, with the stop_playback it calls (lines 215-231)
Disconnect(c) ==
    /\ is_connected[c]
    /\ is_connected' = [is_connected EXCEPT ![c] = FALSE]
    /\ peer_closed' = [peer_closed EXCEPT ![c] = TRUE]
    /\ audio_queue' = [audio_queue EXCEPT ![c] = << >>]
    /\ is_playing' = [is_playing EXCEPT ![c] = FALSE]
    /\ output_stream' = [output_stream EXCEPT ![c] = FALSE]
    /\ UNCHANGED << is_running, thread, engine_fields, network_server, srv_is_running,
                    workers, caller_pc, output_strips, gain_case, server_vars,
                    buffer, rd, ctl_sent, cal, receiver, players, written, enqueued,
                    thread_vars >>

\* lines 153-167 with "if" in place of "while": one frame for each recv
ParseFramesOnce(buf, queue) ==
    IF Len(buf) >= 4
    THEN LET size == Unpack(SubSeq(buf, 1, 4))
         IN  IF Len(buf) >= 4 + size
             THEN [buffer |-> SubSeq(buf, 5 + size, Len(buf)),
                   queue |-> Append(queue, SubSeq(buf, 5, 4 + size))]
             ELSE [buffer |-> buf, queue |-> queue]
    ELSE [buffer |-> buf, queue |-> queue]

\* lines 153-167: pop every complete [size][data] frame
RECURSIVE ParseFrames(_, _)
ParseFrames(buf, queue) ==
    IF Len(buf) >= 4
    THEN LET size == Unpack(SubSeq(buf, 1, 4))
         IN  IF Len(buf) >= 4 + size
             THEN ParseFrames(SubSeq(buf, 5 + size, Len(buf)),
                              Append(queue, SubSeq(buf, 5, 4 + size)))
             ELSE [buffer |-> buf, queue |-> queue]
    ELSE [buffer |-> buf, queue |-> queue]

\* lines 140-150: with a newline in the buffer, everything up to the first
\* one leaves the buffer, whether it parses as JSON or not
CutLine(buf) ==
    IF \E k \in 1..Len(buf) : buf[k] = Newline
    THEN LET message_end == CHOOSE k \in 1..Len(buf) :
                               buf[k] = Newline /\ \A j \in 1..(k - 1) : buf[j] # Newline
         IN  SubSeq(buf, message_end + 1, Len(buf))
    ELSE buf

\* lines 137-167: one pass of the receive loop on the bytes recv returned
Received(buf, queue, data) == ParseFrames(CutLine(buf \o data), queue)

\* lines 128-167: one recv(4096) that returns the next k bytes
ClientRecv(c, k) ==
    /\ is_connected[c]
    /\ k \in 1..Len(Unread(c))
    /\ k <= 4096
    /\ LET got == Received(buffer[c], audio_queue[c], SubSeq(Unread(c), 1, k))
       IN  /\ buffer' = [buffer EXCEPT ![c] = got.buffer]
           /\ audio_queue' = [audio_queue EXCEPT ![c] = got.queue]
           /\ enqueued' = [enqueued EXCEPT ![c] =
                  @ \o SubSeq(got.queue, Len(audio_queue[c]) + 1, Len(got.queue))]
    /\ rd' = [rd EXCEPT ![c] = @ + k]
    /\ UNCHANGED << is_running, thread, engine_fields, network_server, srv_is_running,
                    workers, caller_pc, output_strips, gain_case, server_vars,
                    peer_closed, is_connected, ctl_sent, cal, receiver, is_playing,
                    output_stream, players, written, thread_vars >>

\* lines 131-135: recv returns b'' once the server closed the connection
ClientRecvEof(c) ==
    /\ is_connected[c]
    /\ c \in srv_closed
    /\ Unread(c) = << >>
    /\ is_connected' = [is_connected EXCEPT ![c] = FALSE]
    /\ receiver' = [receiver EXCEPT ![c] = "ended"]
    /\ UNCHANGED << is_running, thread, engine_fields, network_server, srv_is_running,
                    workers, caller_pc, output_strips, gain_case, server_vars,
                    peer_closed, buffer, audio_queue, rd, ctl_sent, cal, is_playing,
                    output_stream, players, written, enqueued,
                    thread_vars >>

\* lines 169-173: recv raises on the socket disconnect closed; is_connected
\* is already false, so the loop breaks without logging
ReceiverEnds(c) ==
    /\ receiver[c] = "running"
    /\ ~is_connected[c]
    /\ receiver' = [receiver EXCEPT ![c] = "ended"]
    /\ UNCHANGED << is_running, thread, engine_fields, network_server, srv_is_running,
                    workers, caller_pc, output_strips, gain_case, net_vars, cal,
                    is_playing, output_stream, players, written, enqueued,
                    thread_vars >>

\* the _playback_loop threads that have not ended
Playing(c) == { t \in 1..MaxPlays : players[c][t].pc \notin {"none", "ended"} }

\* lines 186-213: start_playback returns at once while is_playing is set;
\* otherwise p.open returns a stream ("ok") or raises
StartPlayback(c, outcome) ==
    /\ IF is_playing[c]
       THEN UNCHANGED << is_playing, output_stream, players >>
       ELSE IF outcome = "ok"
            THEN /\ \E t \in 1..MaxPlays : players[c][t].pc = "none"
                 /\ LET t == CHOOSE t \in 1..MaxPlays :
                                 /\ players[c][t].pc = "none"
                                 /\ \A u \in 1..(t - 1) : players[c][u].pc # "none"
                    IN  players' = [players EXCEPT ![c][t].pc = "test"]
                 /\ output_stream' = [output_stream EXCEPT ![c] = TRUE]
                 /\ is_playing' = [is_playing EXCEPT ![c] = TRUE]
            ELSE /\ is_playing' = [is_playing EXCEPT ![c] = FALSE]
                 /\ UNCHANGED << output_stream, players >>
    /\ UNCHANGED << is_running, thread, engine_fields, network_server, srv_is_running,
                    workers, caller_pc, output_strips, gain_case, net_vars, cal,
                    receiver, written, enqueued, thread_vars >>

\* lines 215-231: stop_playback clears the flag, closes the stream and
\* empties the queue; it does not wait for the playback thread
StopPlayback(c) ==
    /\ is_playing' = [is_playing EXCEPT ![c] = FALSE]
    /\ output_stream' = [output_stream EXCEPT ![c] = FALSE]
    /\ audio_queue' = [audio_queue EXCEPT ![c] = << >>]
    /\ UNCHANGED << is_running, thread, engine_fields, network_server, srv_is_running,
                    workers, caller_pc, output_strips, gain_case, server_vars,
                    peer_closed, is_connected, buffer, rd, ctl_sent, cal,
                    receiver, players, written, enqueued, thread_vars >>

\* line 235: the loop test of playback thread t
PlayTest(c, t) ==
    /\ players[c][t].pc = "test"
    /\ players' = [players EXCEPT ![c][t].pc = IF is_playing[c] THEN "pop" ELSE "ended"]
    /\ UNCHANGED << is_running, thread, engine_fields, network_server, srv_is_running,
                    workers, caller_pc, output_strips, gain_case, net_vars, cal,
                    receiver, is_playing, output_stream, written, enqueued,
                    thread_vars >>

\* lines 238-248: under queue_lock the head of the queue, if there is one;
\* with nothing popped, or b'' popped, the thread sleeps and tests again
PlayPop(c, t) ==
    /\ players[c][t].pc = "pop"
    /\ IF audio_queue[c] # << >>
       THEN /\ audio_queue' = [audio_queue EXCEPT ![c] = Tail(@)]
            /\ players' = [players EXCEPT ![c][t] =
                              IF Head(audio_queue[c]) # << >>
                              THEN [pc |-> "write", audio_data |-> Head(audio_queue[c])]
                              ELSE [pc |-> "test", audio_data |-> << >>]]
       ELSE /\ players' = [players EXCEPT ![c][t].pc = "test"]
            /\ UNCHANGED audio_queue
    /\ UNCHANGED << is_running, thread, engine_fields, network_server, srv_is_running,
                    workers, caller_pc, output_strips, gain_case, server_vars,
                    peer_closed, is_connected, buffer, rd, ctl_sent, cal,
                    receiver, is_playing, output_stream, written, enqueued,
                    thread_vars >>

\* lines 245, 250-252: write to self.output_stream; with the stream closed
\* and the attribute None the call raises and the thread ends
PlayWrite(c, t) ==
    /\ players[c][t].pc = "write"
    /\ IF output_stream[c]
       THEN /\ written' = [written EXCEPT ![c] = Append(@, players[c][t].audio_data)]
            /\ players' = [players EXCEPT ![c][t] = [pc |-> "test", audio_data |-> << >>]]
       ELSE /\ players' = [players EXCEPT ![c][t] = [pc |-> "ended", audio_data |-> << >>]]
            /\ UNCHANGED written
    /\ UNCHANGED << is_running, thread, engine_fields, network_server, srv_is_running,
                    workers, caller_pc, output_strips, gain_case, net_vars, cal,
                    receiver, is_playing, output_stream, enqueued, thread_vars >>

(***************************************************************************)
(* NetworkServer, thread by thread: the caller of start and stop, the      *)
(* accept thread, one handler thread per accepted socket and the engine    *)
(* worker inside broadcast_audio, each section under self.lock in two      *)
(* steps.  One session of the server object: start, clients, stop.         *)
(***************************************************************************)
Free == [by |-> "free", conn |-> 0]
Holder(kind, c) == [by |-> kind, conn |-> c]

NoAccept == [pc |-> "none", conn |-> 0]
IdleBroadcaster == [pc |-> "idle", bytes |-> << >>, todo |-> << >>,
                    failed |-> {}, rest |-> << >>]
NoResult == [called |-> FALSE, ok |-> FALSE, ip |-> 0]
\* _get_local_ip() of the machine
LocalIp == 10
Failed == [called |-> TRUE, ok |-> FALSE, ip |-> 0]

InitThreads ==
    /\ lock = Free
    /\ server_socket = "none"
    /\ start_result = NoResult
    /\ accept_thread = NoAccept
    /\ stopper = "none"
    /\ broadcaster = IdleBroadcaster
    /\ sending = [c \in Conns |-> << >>]

\* a start that sets the flag before the socket listens
StartResultEager(outcome) ==
    [ flag   |-> TRUE,
      socket |-> CASE outcome = "ok" -> "listening"
                   [] outcome = "socket" -> server_socket
                   [] OTHER -> "unbound",
      thread |-> IF outcome = "ok" THEN [pc |-> "test", conn |-> 0] ELSE accept_thread,
      result |-> IF outcome = "ok" THEN [called |-> TRUE, ok |-> TRUE, ip |-> LocalIp]
                 ELSE Failed ]

\* lines 33-59: what start leaves behind when socket() raises ("socket"),
\* when bind() or listen() raises ("bind"), and when nothing raises ("ok")
StartResult(outcome) ==
    [ flag   |-> outcome = "ok",
      socket |-> CASE outcome = "ok" -> "listening"
                   [] outcome = "socket" -> server_socket
                   [] OTHER -> "unbound",
      thread |-> IF outcome = "ok" THEN [pc |-> "test", conn |-> 0] ELSE accept_thread,
      result |-> IF outcome = "ok" THEN [called |-> TRUE, ok |-> TRUE, ip |-> LocalIp]
                 ELSE Failed ]

\* NetworkServer.start, called while the server is not running
\* (SyncWave.py:208)
NetStart(outcome) ==
    /\ ~srv_is_running
    /\ accept_thread.pc = "none"
    /\ LET r == StartResult(outcome)
       IN  /\ srv_is_running' = r.flag
           /\ server_socket' = r.socket
           /\ accept_thread' = r.thread
           /\ start_result' = r.result
    /\ UNCHANGED << is_running, thread, engine_fields, network_server, workers,
                    caller_pc, output_strips, gain_case, net_vars, cal, play_vars,
                    lock, stopper, broadcaster, sending >>

\* connections that have arrived and wait to be accepted
Waiting == { c \in Conns : /\ handlers[c] = "none"
                           /\ ctl_sent[c] # << >>
                           /\ accept_thread.conn # c }

\* line 63: stop clears the flag
StopFlag ==
    /\ srv_is_running
    /\ stopper = "none"
    /\ srv_is_running' = FALSE
    /\ stopper' = "lock"
    /\ UNCHANGED << is_running, thread, engine_fields, network_server, workers,
                    caller_pc, output_strips, gain_case, net_vars, cal, play_vars,
                    lock, server_socket, start_result, accept_thread,
                    broadcaster, sending >>

\* lines 66-71: under the lock, every listed socket is closed
StopCloseClients ==
    /\ stopper = "lock"
    /\ lock = Free
    /\ lock' = Holder("stop", 0)
    /\ srv_closed' = srv_closed \cup Listed(clients)
    /\ sock_in' = Discarded(sock_in, Listed(clients))
    /\ stopper' = "clear"
    /\ UNCHANGED << is_running, thread, engine_fields, network_server, srv_is_running,
                    workers, caller_pc, output_strips, gain_case, clients,
                    client_info, handlers, sock_out, broadcast_log, client_vars, cal, play_vars,
                    server_socket, start_result, accept_thread, broadcaster,
                    sending >>

\* lines 72-73: both collections are cleared and the lock is released
StopClear ==
    /\ stopper = "clear"
    /\ clients' = << >>
    /\ client_info' = NoInfo
    /\ lock' = Free
    /\ stopper' = "listen"
    /\ UNCHANGED << is_running, thread, engine_fields, network_server, srv_is_running,
                    workers, caller_pc, output_strips, gain_case, handlers,
                    srv_closed, sock_in, sock_out, broadcast_log, client_vars, cal, play_vars,
                    server_socket, start_result, accept_thread, broadcaster,
                    sending >>

\* lines 76-80: the listening socket is closed; connections still waiting
\* in its backlog are reset
StopCloseListen ==
    /\ stopper = "listen"
    /\ server_socket' = "closed"
    /\ stopper' = "returned"
    /\ handlers' = [c \in Conns |-> IF c \in Waiting THEN "done" ELSE handlers[c]]
    /\ srv_closed' = srv_closed \cup Waiting
    /\ sock_in' = Discarded(sock_in, Waiting)
    /\ UNCHANGED << is_running, thread, engine_fields, network_server, srv_is_running,
                    workers, caller_pc, output_strips, gain_case, clients,
                    client_info, sock_out, broadcast_log, client_vars, cal, play_vars,
                    lock, start_result, accept_thread, broadcaster, sending >>

\* line 135: while self.is_running
AcceptTest ==
    /\ accept_thread.pc = "test"
    /\ accept_thread' = [accept_thread EXCEPT
                           !.pc = IF srv_is_running THEN "accept" ELSE "ended"]
    /\ UNCHANGED << is_running, thread, engine_fields, network_server, srv_is_running,
                    workers, caller_pc, output_strips, gain_case, net_vars, cal, play_vars,
                    lock, server_socket, start_result, stopper, broadcaster,
                    sending >>

\* line 137: accept() returns the socket of the connection that has
\* waited longest
AcceptReturn(c) ==
    /\ accept_thread.pc = "accept"
    /\ server_socket = "listening"
    /\ c \in Waiting
    /\ \A d \in Waiting : c <= d
    /\ accept_thread' = [pc |-> "register", conn |-> c]
    /\ UNCHANGED << is_running, thread, engine_fields, network_server, srv_is_running,
                    workers, caller_pc, output_strips, gain_case, net_vars, cal, play_vars,
                    lock, server_socket, start_result, stopper, broadcaster,
                    sending >>

\* lines 137 and 158-160: accept() raises once stop has closed the
\* listening socket; the error is dropped and the loop test comes next
AcceptRaise ==
    /\ accept_thread.pc = "accept"
    /\ server_socket = "closed"
    /\ accept_thread' = [accept_thread EXCEPT !.pc = "test"]
    /\ UNCHANGED << is_running, thread, engine_fields, network_server, srv_is_running,
                    workers, caller_pc, output_strips, gain_case, net_vars, cal, play_vars,
                    lock, server_socket, start_result, stopper, broadcaster,
                    sending >>

\* a thread that does not wait for the lock
AcquireAnyway(held) == TRUE

\* with self.lock: a thread enters when no thread holds the lock
Acquire(held) == held = Free

\* lines 142-143: the lock is taken and the socket appended
AcceptAppend ==
    /\ accept_thread.pc = "register"
    /\ Acquire(lock)
    /\ lock' = Holder("accept", 0)
    /\ clients' = Append(clients, accept_thread.conn)
    /\ accept_thread' = [accept_thread EXCEPT !.pc = "locked"]
    /\ UNCHANGED << is_running, thread, engine_fields, network_server, srv_is_running,
                    workers, caller_pc, output_strips, gain_case, client_info,
                    handlers, srv_closed, sock_in, sock_out, broadcast_log,
                    client_vars, cal, play_vars, server_socket, start_result, stopper,
                    broadcaster, sending >>

\* lines 144-148: the record is stored and the lock released
AcceptInfo ==
    /\ accept_thread.pc = "locked"
    /\ LET c == accept_thread.conn
       IN  client_info' = (c :> [address |-> Address(c), connected_at |-> Now,
                                 name |-> DefaultName(c)]) @@ client_info
    /\ lock' = Free
    /\ accept_thread' = [accept_thread EXCEPT !.pc = "spawn"]
    /\ UNCHANGED << is_running, thread, engine_fields, network_server, srv_is_running,
                    workers, caller_pc, output_strips, gain_case, clients,
                    handlers, srv_closed, sock_in, sock_out, broadcast_log,
                    client_vars, cal, play_vars, server_socket, start_result, stopper,
                    broadcaster, sending >>

\* lines 151-156: the handler thread of the socket is started
AcceptSpawn ==
    /\ accept_thread.pc = "spawn"
    /\ handlers' = [handlers EXCEPT ![accept_thread.conn] = "welcome"]
    /\ accept_thread' = [pc |-> "test", conn |-> 0]
    /\ UNCHANGED << is_running, thread, engine_fields, network_server, srv_is_running,
                    workers, caller_pc, output_strips, gain_case, clients,
                    client_info, srv_closed, sock_in, sock_out, broadcast_log,
                    client_vars, cal, play_vars, lock, server_socket, start_result, stopper,
                    broadcaster, sending >>

\* the part of its bytes one send() call takes when it does not take all
FirstSend(bytes) == SubSeq(bytes, 1, Len(bytes) \div 2)
LaterSend(bytes) == SubSeq(bytes, Len(bytes) \div 2 + 1, Len(bytes))

\* lines 166-171: the welcome line goes out in one send() call, or raises
WelcomeSend(c) ==
    /\ handlers[c] = "welcome"
    /\ sending[c] = << >>
    /\ \E outcome \in SendOutcomes(c) :
          sock_out' = SendJson(sock_out, c, Msg("welcome"), outcome)
    /\ handlers' = [handlers EXCEPT ![c] = "test"]
    /\ UNCHANGED << is_running, thread, engine_fields, network_server, srv_is_running,
                    workers, caller_pc, output_strips, gain_case, clients,
                    client_info, srv_closed, sock_in, broadcast_log, client_vars,
                    cal, play_vars, thread_vars >>

\* line 234: the first send() call of sendall takes a part of the line
WelcomeFirst(c) ==
    /\ handlers[c] = "welcome"
    /\ sending[c] = << >>
    /\ "sent" \in SendOutcomes(c)
    /\ sock_out' = Written(sock_out, c, "json", FirstSend(Line(Msg("welcome"))))
    /\ sending' = [sending EXCEPT ![c] = LaterSend(Line(Msg("welcome")))]
    /\ UNCHANGED << is_running, thread, engine_fields, network_server, srv_is_running,
                    workers, caller_pc, output_strips, gain_case, clients,
                    client_info, handlers, srv_closed, sock_in, broadcast_log,
                    client_vars, cal, play_vars, lock, server_socket, start_result,
                    accept_thread, stopper, broadcaster >>

\* line 234: the next send() call of sendall takes the rest, or raises
WelcomeRest(c) ==
    /\ handlers[c] = "welcome"
    /\ sending[c] # << >>
    /\ \E outcome \in SendOutcomes(c) :
          sock_out' = IF outcome = "sent"
                      THEN Written(sock_out, c, "json", sending[c])
                      ELSE sock_out
    /\ sending' = [sending EXCEPT ![c] = << >>]
    /\ handlers' = [handlers EXCEPT ![c] = "test"]
    /\ UNCHANGED << is_running, thread, engine_fields, network_server, srv_is_running,
                    workers, caller_pc, output_strips, gain_case, clients,
                    client_info, srv_closed, sock_in, broadcast_log, client_vars,
                    cal, play_vars, lock, server_socket, start_result, accept_thread,
                    stopper, broadcaster >>

\* a loop that goes on to recv whatever the flag says
WhileTrue(running) == "recv"

\* line 174: while self.is_running; the else side is the finally block
WhileRunning(running) == IF running THEN "recv" ELSE "finally"

HandlerTest(c) ==
    /\ handlers[c] = "test"
    /\ handlers' = [handlers EXCEPT ![c] = WhileRunning(srv_is_running)]
    /\ UNCHANGED << is_running, thread, engine_fields, network_server, srv_is_running,
                    workers, caller_pc, output_strips, gain_case, clients,
                    client_info, srv_closed, sock_in, sock_out, broadcast_log,
                    client_vars, cal, play_vars, thread_vars >>

\* lines 177-183: recv(1024) returns the next k bytes; they are parsed as
\* one JSON value and handled, or the handler leaves the loop
RecvMessage(c, k) ==
    /\ handlers[c] = "recv"
    /\ c \notin srv_closed
    /\ k \in 1..Len(sock_in[c])
    /\ k <= 1024
    /\ LET r == JsonLoads(SubSeq(sock_in[c], 1, k))
           h == HandleClientMessage(c, r.msg, client_info)
       IN  /\ sock_in' = [sock_in EXCEPT ![c] = SubSeq(@, k + 1, Len(@))]
           /\ IF r.ok
              THEN /\ client_info' = h.info
                   /\ IF h.reply = << >>
                      THEN sock_out' = sock_out
                      ELSE \E outcome \in SendOutcomes(c) :
                              sock_out' = SendJson(sock_out, c, h.reply[1], outcome)
                   /\ handlers' = [handlers EXCEPT ![c] = "test"]
              ELSE /\ handlers' = [handlers EXCEPT ![c] = "finally"]
                   /\ UNCHANGED << client_info, sock_out >>
    /\ UNCHANGED << is_running, thread, engine_fields, network_server, srv_is_running,
                    workers, caller_pc, output_strips, gain_case, clients,
                    srv_closed, broadcast_log, client_vars, cal, play_vars, thread_vars >>

\* lines 177-189: recv returns b'' after the peer closed, or raises on a
\* socket the server has closed
RecvEnds(c) ==
    /\ handlers[c] = "recv"
    /\ \/ c \in srv_closed
       \/ peer_closed[c] /\ sock_in[c] = << >>
    /\ handlers' = [handlers EXCEPT ![c] = "finally"]
    /\ UNCHANGED << is_running, thread, engine_fields, network_server, srv_is_running,
                    workers, caller_pc, output_strips, gain_case, clients,
                    client_info, srv_closed, sock_in, sock_out, broadcast_log,
                    client_vars, cal, play_vars, thread_vars >>

\* a removal that does not look whether the socket is still listed:
\* list.remove raises ValueError and the handler ends there
RemoveUnchecked(list, c) ==
    IF c \in Listed(list) THEN [list |-> Without(list, {c}), raised |-> FALSE]
    ELSE [list |-> list, raised |-> TRUE]

\* lines 196-197: if client_socket in self.clients: self.clients.remove(..)
Remove(list, c) == [list |-> Without(list, {c}), raised |-> FALSE]

\* lines 195-197: the lock is taken and the socket leaves the list
FinallyRemove(c) ==
    /\ handlers[c] = "finally"
    /\ Acquire(lock)
    /\ LET r == Remove(clients, c)
       IN  /\ clients' = r.list
           /\ lock' = IF r.raised THEN Free ELSE Holder("handler", c)
           /\ handlers' = [handlers EXCEPT ![c] = IF r.raised THEN "done"
                                                  ELSE "locked"]
    /\ UNCHANGED << is_running, thread, engine_fields, network_server, srv_is_running,
                    workers, caller_pc, output_strips, gain_case, client_info,
                    srv_closed, sock_in, sock_out, broadcast_log, client_vars, cal, play_vars,
                    server_socket, start_result, accept_thread, stopper,
                    broadcaster, sending >>

\* lines 198-199: the record is deleted and the lock released
FinallyForget(c) ==
    /\ handlers[c] = "locked"
    /\ client_info' = Forget(client_info, {c})
    /\ lock' = Free
    /\ handlers' = [handlers EXCEPT ![c] = "close"]
    /\ UNCHANGED << is_running, thread, engine_fields, network_server, srv_is_running,
                    workers, caller_pc, output_strips, gain_case, clients,
                    srv_closed, sock_in, sock_out, broadcast_log, client_vars, cal, play_vars,
                    server_socket, start_result, accept_thread, stopper,
                    broadcaster, sending >>

\* lines 201-206: the socket is closed and the thread ends
FinallyClose(c) ==
    /\ handlers[c] = "close"
    /\ srv_closed' = srv_closed \cup {c}
    /\ sock_in' = Discarded(sock_in, {c})
    /\ handlers' = [handlers EXCEPT ![c] = "done"]
    /\ UNCHANGED << is_running, thread, engine_fields, network_server, srv_is_running,
                    workers, caller_pc, output_strips, gain_case, clients,
                    client_info, sock_out, broadcast_log, client_vars, cal, play_vars,
                    thread_vars >>

\* audio_sync.py:211 and lines 244-253: the engine worker calls
\* broadcast_audio while the server runs; with no client it returns at once
BroadcastCall(audio_bytes) ==
    /\ srv_is_running
    /\ broadcaster.pc = "idle"
    /\ clients # << >>
    /\ Len(broadcast_log) < MaxBroadcasts
    /\ broadcast_log' = Append(broadcast_log, audio_bytes)
    /\ broadcaster' = [IdleBroadcaster EXCEPT !.pc = "lock", !.bytes = audio_bytes]
    /\ UNCHANGED << is_running, thread, engine_fields, network_server, srv_is_running,
                    workers, caller_pc, output_strips, gain_case, clients,
                    client_info, handlers, srv_closed, sock_in, sock_out,
                    client_vars, cal, play_vars, lock, server_socket, start_result,
                    accept_thread, stopper, sending >>

\* lines 256-258: the lock is taken; the for statement iterates the list
BroadcastLock ==
    /\ broadcaster.pc = "lock"
    /\ Acquire(lock)
    /\ lock' = Holder("broadcast", 0)
    /\ broadcaster' = [broadcaster EXCEPT !.pc = "send", !.todo = clients]
    /\ UNCHANGED << is_running, thread, engine_fields, network_server, srv_is_running,
                    workers, caller_pc, output_strips, gain_case, net_vars, cal, play_vars,
                    server_socket, start_result, accept_thread, stopper, sending >>

\* lines 259-263: sendall(packet) to the next client: all of it in one
\* send() call ("sent"), a part of it ("part"), or an error ("raise")
BroadcastSend(how) ==
    /\ broadcaster.pc = "send"
    /\ broadcaster.todo # << >>
    /\ broadcaster.rest = << >>
    /\ LET c == Head(broadcaster.todo)
           packet == Packet(broadcaster.bytes)
       IN  /\ (IF how = "part" THEN "sent" ELSE how) \in SendOutcomes(c)
           /\ sock_out' = CASE how = "sent" -> Written(sock_out, c, "audio", packet)
                            [] how = "part" ->
                                 Written(sock_out, c, "audio", FirstSend(packet))
                            [] OTHER -> sock_out
           /\ broadcaster' =
                 CASE how = "sent" -> [broadcaster EXCEPT !.todo = Tail(@)]
                   [] how = "part" -> [broadcaster EXCEPT !.rest = LaterSend(packet)]
                   [] OTHER -> [broadcaster EXCEPT !.todo = Tail(@),
                                                   !.failed = @ \cup {c}]
    /\ UNCHANGED << is_running, thread, engine_fields, network_server, srv_is_running,
                    workers, caller_pc, output_strips, gain_case, clients,
                    client_info, handlers, srv_closed, sock_in, broadcast_log,
                    client_vars, cal, play_vars, lock, server_socket, start_result,
                    accept_thread, stopper, sending >>

\* line 260: the next send() call of sendall takes the rest, or raises
BroadcastSendRest(outcome) ==
    /\ broadcaster.pc = "send"
    /\ broadcaster.rest # << >>
    /\ LET c == Head(broadcaster.todo)
       IN  /\ outcome \in SendOutcomes(c)
           /\ sock_out' = IF outcome = "sent"
                          THEN Written(sock_out, c, "audio", broadcaster.rest)
                          ELSE sock_out
           /\ broadcaster' = [broadcaster EXCEPT
                                !.todo = Tail(@), !.rest = << >>,
                                !.failed = IF outcome = "sent" THEN @ ELSE @ \cup {c}]
    /\ UNCHANGED << is_running, thread, engine_fields, network_server, srv_is_running,
                    workers, caller_pc, output_strips, gain_case, clients,
                    client_info, handlers, srv_closed, sock_in, broadcast_log,
                    client_vars, cal, play_vars, lock, server_socket, start_result,
                    accept_thread, stopper, sending >>

\* lines 266-269: the sockets whose sendall raised leave the list
BroadcastRemove ==
    /\ broadcaster.pc = "send"
    /\ broadcaster.todo = << >>
    /\ clients' = Without(clients, broadcaster.failed)
    /\ broadcaster' = [broadcaster EXCEPT !.pc = "forget"]
    /\ UNCHANGED << is_running, thread, engine_fields, network_server, srv_is_running,
                    workers, caller_pc, output_strips, gain_case, client_info,
                    handlers, srv_closed, sock_in, sock_out, broadcast_log,
                    client_vars, cal, play_vars, lock, server_socket, start_result,
                    accept_thread, stopper, sending >>

\* lines 270-275: their records are deleted, they are closed, and the lock
\* is released
BroadcastForget ==
    /\ broadcaster.pc = "forget"
    /\ client_info' = Forget(client_info, broadcaster.failed)
    /\ srv_closed' = srv_closed \cup broadcaster.failed
    /\ sock_in' = Discarded(sock_in, broadcaster.failed)
    /\ lock' = Free
    /\ broadcaster' = IdleBroadcaster
    /\ UNCHANGED << is_running, thread, engine_fields, network_server, srv_is_running,
                    workers, caller_pc, output_strips, gain_case, clients,
                    handlers, sock_out, broadcast_log, client_vars, cal, play_vars,
                    server_socket, start_result, accept_thread, stopper, sending >>

\* network_client.py:75-93: a client connects while the socket listens,
\* and sends set_name; connections are numbered in the order they arrive
ConnectListening(c, client_name) ==
    /\ server_socket = "listening"
    /\ ctl_sent[c] = << >>
    /\ \A d \in Conns : d < c => ctl_sent[d] # << >>
    /\ is_connected' = [is_connected EXCEPT ![c] = TRUE]
    /\ sock_in' = [sock_in EXCEPT ![c] = @ \o Line(SetName(client_name))]
    /\ ctl_sent' = [ctl_sent EXCEPT ![c] = << SetName(client_name) >>]
    /\ receiver' = [receiver EXCEPT ![c] = "running"]
    /\ UNCHANGED << is_running, thread, engine_fields, network_server, srv_is_running,
                    workers, caller_pc, output_strips, gain_case, clients,
                    client_info, handlers, srv_closed, sock_out, broadcast_log,
                    peer_closed, buffer, audio_queue, rd, cal, is_playing,
                    output_stream, players, written, enqueued,
                    thread_vars >>

(***************************************************************************)
(* The gain stage applied to one sample, for every volume 0..100.          *)
(***************************************************************************)
GainSamples == {-32768, -28200, -10000, -101, -100, -1, 0, 1, 50, 100, 9999, 10000, 32767}

\* lines 198-206 for one sample of audio_array
GainStage ==
    /\ ~gain_case.done
    /\ gain_case' = [gain_case EXCEPT
                       !.out = EmittedSample(gain_case.sample, gain_case.volume),
                       !.done = TRUE]
    /\ UNCHANGED << is_running, thread, engine_fields, network_server, srv_is_running,
                    workers, caller_pc, output_strips, net_vars, cal, play_vars, thread_vars >>

(***************************************************************************)
(* CalibrationEngine.calibrate_device.  Signals are kept at one sample per *)
(* TickMs milliseconds; the correlation is computed on them as            *)
(* scipy.signal.correlate computes it on the 44100 Hz signals.             *)
(***************************************************************************)
\* the largest sink latency tried, in ticks
MaxSinkDelay == 8
\* the latest start of the recording after calibrate_device began, in ticks
MaxRecLatency == 4

TickMs == 100
cal_sample_rate == 44100
\* tone_duration = 0.5
ToneMs == 500
\* silence = np.zeros(int(0.2 * self.sample_rate))
SilenceMs == 200
\* time.sleep(0.1)
WarmUpMs == 100
\* record_duration = self.tone_duration + 1.0
RecordMs == ToneMs + 1000
\* (tone * 0.5 * 32767).astype(np.int16) at the top of the sine
Amplitude == 16383
\* delay_ms > 5000
MaxDelayMs == 5000

Zeros(n) == [k \in 1..n |-> 0]

\* lines 23-42: the tone, ToneMs long
generate_calibration_tone == [k \in 1..(ToneMs \div TickMs) |-> Amplitude]

\* line 58: full_signal
FullSignal(tone) == Zeros(SilenceMs \div TickMs) \o tone \o Zeros(SilenceMs \div TickMs)

\* lines 90-101: num_chunks chunks of 1024 samples, as a number of ticks
RecordTicks ==
    LET num_chunks == (cal_sample_rate * RecordMs) \div (1000 * 1024)
    IN  (num_chunks * 1024 * 1000) \div (cal_sample_rate * TickMs)

\* what the recorder hears: the signal played from play_at on, sink_delay
\* later, in a recording that began at rec_at; silence elsewhere
Heard(played, play_at, sink_delay, rec_at) ==
    [k \in 1..RecordTicks |->
        LET j == (rec_at + k) - (play_at + sink_delay)
        IN  IF j \in 1..Len(played) THEN played[j] ELSE 0]

MaxAbs(sig) == CHOOSE m \in { Abs(sig[k]) : k \in 1..Len(sig) } :
                  \A k \in 1..Len(sig) : Abs(sig[k]) <= m

RECURSIVE SumTo(_, _, _, _)
SumTo(rec, ref, lag, k) ==
    IF k = 0 THEN 0
    ELSE (IF (k + lag) \in 1..Len(rec) THEN rec[k + lag] * ref[k] ELSE 0)
         + SumTo(rec, ref, lag, k - 1)

\* signal.correlate(recorded, reference, mode='full') at one lag, on the
\* signals scaled to unit peak
Correlation(rec, ref, lag) ==
    SumTo([k \in 1..Len(rec) |-> rec[k] \div MaxAbs(rec)],
          [k \in 1..Len(ref) |-> ref[k] \div MaxAbs(ref)], lag, Len(ref))

\* signal.correlation_lags(len(recorded), len(reference), mode='full')
Lags(rec, ref) == (1 - Len(ref))..(Len(rec) - 1)

\* lags[np.argmax(correlation)]: the first lag of the largest value; a silent
\* recording divides by zero, every value is nan and argmax returns index 0
PeakLag(rec, ref) ==
    IF MaxAbs(rec) = 0 THEN 1 - Len(ref)
    ELSE CHOOSE lag \in Lags(rec, ref) :
            \A other \in Lags(rec, ref) :
                /\ Correlation(rec, ref, other) <= Correlation(rec, ref, lag)
                /\ other < lag =>
                      Correlation(rec, ref, other) < Correlation(rec, ref, lag)

\* lines 108-137: delay in ms and the correlation strength, as a fraction
detect_delay_cross_correlation(reference_signal, recorded_signal) ==
    LET lag == PeakLag(recorded_signal, reference_signal)
    IN  [delay_ms |-> lag * TickMs,
         nan |-> MaxAbs(recorded_signal) = 0,
         num |-> IF MaxAbs(recorded_signal) = 0 THEN 0
                 ELSE Correlation(recorded_signal, reference_signal, lag),
         den |-> Len(reference_signal) * Len(recorded_signal)]

\* the value calibrate_device returns: (None, 0) is ok = FALSE
Failure == [ok |-> FALSE, delay_ms |-> 0, nan |-> FALSE, num |-> 0, den |-> 1]

\* lines 205-216
Clamp(found) ==
    IF found.delay_ms < 0
    THEN [ok |-> TRUE, delay_ms |-> 0, nan |-> found.nan,
          num |-> found.num, den |-> found.den]
    ELSE IF found.delay_ms > MaxDelayMs
    THEN [ok |-> TRUE, delay_ms |-> 0, nan |-> FALSE, num |-> 0, den |-> 1]
    ELSE [ok |-> TRUE, delay_ms |-> found.delay_ms, nan |-> found.nan,
          num |-> found.num, den |-> found.den]

NoCal ==
    [pc |-> "idle", sink_delay |-> 0, rec_latency |-> 0, play_opens |-> TRUE,
     rec_opens |-> TRUE, is_calibrating |-> FALSE, recording |-> "no",
     played |-> "no", recorded_audio |-> << >>, messages |-> << >>,
     result |-> Failure, callback |-> "works", raised |-> FALSE]

\* the cases: the sink's latency, when the recording really starts, and
\* whether each device opens
CalCases ==
    { [NoCal EXCEPT !.sink_delay = d, !.rec_latency = r,
                    !.play_opens = p, !.rec_opens = q] :
        d \in 0..MaxSinkDelay, r \in 0..MaxRecLatency,
        p \in BOOLEAN, q \in BOOLEAN }

engine_and_net == << is_running, thread, engine_fields, network_server,
                     srv_is_running, workers, caller_pc, output_strips, gain_case,
                     net_vars, thread_vars, play_vars >>

\* lines 222-228: an exception inside the try block reaches the handler,
\* which calls the callback with the error text; a callback that raises
\* again sends its exception to the caller, after the finally block
Except(c) ==
    [c EXCEPT !.pc = "done", !.is_calibrating = FALSE, !.result = Failure,
              !.raised = c.callback = "raises",
              !.messages = IF c.callback = "raises" THEN @
                           ELSE Append(@, "ERROR")]

\* SyncWave.py:484-486: the callback sets a label of the calibration
\* window and raises once that window is gone
CallbackBreaks ==
    /\ cal.pc # "done"
    /\ cal.callback = "works"
    /\ cal' = [cal EXCEPT !.callback = "raises"]
    /\ UNCHANGED engine_and_net

\* lines 153-183: the flag, the tone, and the recorder thread started
CalBegin ==
    /\ cal.pc = "idle"
    /\ IF cal.callback = "raises"
       THEN cal' = Except(cal)
       ELSE cal' = [cal EXCEPT !.pc = "sleep", !.is_calibrating = TRUE,
                               !.recording = "started",
                               !.messages = << "Generating calibration tone...",
                                               "Playing tone and recording..." >>]
    /\ UNCHANGED engine_and_net

\* lines 71-87, in the recorder thread: the input stream opens or
\* record_audio returns None
CalRecordOpen ==
    /\ cal.recording = "started"
    /\ cal' = [cal EXCEPT !.recording = IF cal.rec_opens THEN "open" ELSE "failed"]
    /\ UNCHANGED engine_and_net

\* lines 186-189: after the sleep, play_tone; its result is not looked at
CalPlayTone ==
    /\ cal.pc = "sleep"
    /\ cal' = [cal EXCEPT !.pc = "join",
                          !.played = IF cal.play_opens THEN "yes" ELSE "failed"]
    /\ UNCHANGED engine_and_net

\* a join that returns at once, with the recorder still running
CalJoinNoWait ==
    /\ cal.pc = "join"
    /\ cal' = [cal EXCEPT !.pc = "analyse"]
    /\ UNCHANGED engine_and_net

\* lines 89-103 and 192-197: the recorder has read its chunks and the join
\* returns; recorded_audio None ends the run
CalJoin ==
    /\ cal.pc = "join"
    /\ cal.recording \in {"open", "failed"}
    /\ IF cal.callback = "raises"
       THEN cal' = Except([cal EXCEPT !.recording = "ended"])
       ELSE IF cal.recording = "failed"
       THEN cal' = [cal EXCEPT !.pc = "done", !.is_calibrating = FALSE,
                               !.recording = "ended",
                               !.messages = Append(@, "ERROR: Recording failed"),
                               !.result = Failure]
       ELSE cal' = [cal EXCEPT
                      !.pc = "analyse", !.recording = "ended",
                      !.recorded_audio =
                          Heard(IF cal.played = "yes"
                                THEN FullSignal(generate_calibration_tone)
                                ELSE << >>,
                                WarmUpMs \div TickMs, cal.sink_delay,
                                cal.rec_latency),
                      !.messages = Append(@, "Analyzing delay...")]
    /\ UNCHANGED engine_and_net

\* lines 203-216 and 227-228
CalAnalyse ==
    /\ cal.pc = "analyse"
    /\ IF cal.callback = "raises"
       THEN cal' = Except(cal)
       ELSE cal' = [cal EXCEPT
                 !.pc = "done", !.is_calibrating = FALSE,
                 !.result = Clamp(detect_delay_cross_correlation(
                                     generate_calibration_tone, cal.recorded_audio)),
                 !.messages = Append(@, "Calibration complete!")]
    /\ UNCHANGED engine_and_net

(***************************************************************************)
(* Specifications.                                                         *)
(***************************************************************************)
\* a bare SyncEngine() (network_server=None) used through its API by any caller
Init ==
    /\ InitEngine
    /\ network_server = FALSE
    /\ gain_case = NoGainCase
    /\ InitServer
    /\ InitClients
    /\ InitThreads
    /\ InitPlay
    /\ cal = NoCal

Next ==
    \/ \E call \in StartCalls : Start(call)
    \/ Stop
    \/ StopJoin
    \/ \E w \in Slots : OpenInput(w)
    \/ \E w \in Slots : BeginOutputs(w)
    \/ \E w \in Slots : OpenOutput(w)
    \/ \E w \in Slots : LoopTest(w)
    \/ \E w \in Slots : ReadBlock(w)
    \/ \E w \in Slots : WriteBlock(w)
    \/ \E w \in Slots : Broadcast(w)
    \/ \E w \in Slots : Cleanup(w)

Spec == Init /\ [][Next]_vars

\* the engine as the application drives it: one button, one server
InitApp ==
    /\ InitEngine
    /\ network_server = TRUE
    /\ gain_case = NoGainCase
    /\ InitServer
    /\ InitClients
    /\ InitThreads
    /\ InitPlay
    /\ cal = NoCal

NextApp ==
    \/ \E choice \in InputChoices, strips \in StripLists : ToggleSync(choice, strips)
    \/ StopJoin
    \/ \E w \in Slots : OpenInput(w)
    \/ \E w \in Slots : BeginOutputs(w)
    \/ \E w \in Slots : OpenOutput(w)
    \/ \E w \in Slots : LoopTest(w)
    \/ \E w \in Slots : ReadBlock(w)
    \/ \E w \in Slots : WriteBlock(w)
    \/ \E w \in Slots : Broadcast(w)
    \/ \E w \in Slots : Cleanup(w)
    \/ ServerStart
    \/ ServerStop

SpecApp == InitApp /\ [][NextApp]_vars

\* the application with every thread scheduled and every device call returning
FairSpecApp ==
    /\ SpecApp
    /\ \A w \in Slots : WF_vars(WorkerStep(w))
    /\ WF_vars(StopJoin)

\* the gain stage alone, on one sample and one volume
InitGain ==
    /\ InitEngine
    /\ network_server = FALSE
    /\ InitServer
    /\ InitClients
    /\ InitThreads
    /\ InitPlay
    /\ cal = NoCal
    /\ \E x \in GainSamples, g \in 0..100 :
          gain_case = [sample |-> x, volume |-> g, out |-> 0, done |-> FALSE]

NextGain == GainStage

SpecGain == InitGain /\ [][NextGain]_vars

\* a NetworkServer that is started and left running, its clients' control
\* traffic and broadcast_audio called by any thread; what the clients do
\* with the bytes they are sent is SpecWire's
InitNet ==
    /\ InitEngine
    /\ network_server = TRUE
    /\ gain_case = NoGainCase
    /\ InitServer
    /\ InitClients
    /\ InitThreads
    /\ InitPlay
    /\ cal = NoCal

\* connection Talker sends further control messages and its bytes reach the
\* handler in pieces of any size; the other connections send their set_name
\* only, and the handler reads it in one piece
Talker == 1
MaxRecv == (MaxControl + 1) * 5

NextNet ==
    \/ ServerStart
    \/ \E c \in Conns : Connect(c, NameOf(c))
    \/ \E c \in Conns : Accept(c)
    \/ \E c \in Conns : HandlerWelcome(c)
    \/ \E k \in 1..MaxRecv : HandlerRecv(Talker, k)
    \/ \E c \in Conns \ {Talker} : HandlerRecv(c, Len(sock_in[c]))
    \/ \E c \in Conns : HandlerBreak(c)
    \/ \E c \in Conns : HandlerFinally(c)
    \/ \E m \in ControlMsgs : ClientSendJson(Talker, m)
    \/ \E c \in Conns : Disconnect(c)
    \/ \E b \in PcmBlocks, failed \in SUBSET Conns : BroadcastAudio(b, failed)

SpecNet == InitNet /\ [][NextNet]_vars

\* the accept thread and every handler thread scheduled
FairSpecNet ==
    /\ SpecNet
    /\ \A c \in Conns : WF_vars(Accept(c))
    /\ \A c \in Conns : WF_vars(HandlerWelcome(c))
    /\ WF_vars(\E k \in 1..MaxRecv : HandlerRecv(Talker, k))
    /\ \A c \in Conns \ {Talker} : WF_vars(HandlerRecv(c, Len(sock_in[c])))
    /\ \A c \in Conns : WF_vars(HandlerBreak(c))
    /\ \A c \in Conns : WF_vars(HandlerFinally(c))

\* one connection end to end: the server's writes and the receive loop of
\* the NetworkClient at the other end
WireConn == 1

NextWire ==
    \/ ServerStart
    \/ Connect(WireConn, NameOf(WireConn))
    \/ Accept(WireConn)
    \/ HandlerWelcome(WireConn)
    \/ \E k \in 1..5 : HandlerRecv(WireConn, k)
    \/ HandlerBreak(WireConn)
    \/ HandlerFinally(WireConn)
    \/ \E b \in PcmBlocks, failed \in SUBSET {WireConn} : BroadcastAudio(b, failed)
    \/ \E k \in 1..((MaxBroadcasts + 1) * 6) : ClientRecv(WireConn, k)
    \/ ClientRecvEof(WireConn)
    \/ Disconnect(WireConn)

SpecWire == InitNet /\ [][NextWire]_vars

\* calibrate_device run once, for each latency and each device outcome
InitCal ==
    /\ InitEngine
    /\ network_server = FALSE
    /\ gain_case = NoGainCase
    /\ InitServer
    /\ InitClients
    /\ InitThreads
    /\ InitPlay
    /\ cal \in CalCases

NextCal ==
    \/ CalBegin
    \/ CalRecordOpen
    \/ CalPlayTone
    \/ CalJoin
    \/ CalAnalyse

SpecCal == InitCal /\ [][NextCal]_vars

\* the same run with the calibration window closed at any moment
NextCalUi == NextCal \/ CallbackBreaks

SpecCalUi == InitCal /\ [][NextCalUi]_vars

\* one session of the server, thread by thread: start (which may fail),
\* clients that connect and close, broadcasts, stop
InitSrv ==
    /\ InitEngine
    /\ network_server = TRUE
    /\ gain_case = NoGainCase
    /\ InitServer
    /\ InitClients
    /\ InitThreads
    /\ InitPlay
    /\ cal = NoCal

\* the accept thread
AcceptThread ==
    \/ AcceptTest
    \/ \E c \in Conns : AcceptReturn(c)
    \/ AcceptRaise
    \/ AcceptAppend
    \/ AcceptInfo
    \/ AcceptSpawn

\* the handler thread of connection c, its sends going out whole
HandlerThread(c) ==
    \/ WelcomeSend(c)
    \/ HandlerTest(c)
    \/ RecvMessage(c, Len(sock_in[c]))
    \/ RecvEnds(c)
    \/ FinallyRemove(c)
    \/ FinallyForget(c)
    \/ FinallyClose(c)

\* the caller of stop, once inside
StopThread ==
    \/ StopCloseClients
    \/ StopClear
    \/ StopCloseListen

\* the engine worker inside broadcast_audio, its sends going out whole
BroadcastThread ==
    \/ BroadcastLock
    \/ \E how \in {"sent", "raise"} : BroadcastSend(how)
    \/ BroadcastRemove
    \/ BroadcastForget

\* the connection whose client closes it
Leaver == 1
\* the block the engine broadcasts
SrvBlocks == { << 1, 0 >> }

NextSrv ==
    \/ \E outcome \in {"ok", "socket", "bind"} : NetStart(outcome)
    \/ StopFlag
    \/ \E c \in Conns : ConnectListening(c, NameOf(c))
    \/ Disconnect(Leaver)
    \/ \E audio \in SrvBlocks : BroadcastCall(audio)
    \/ AcceptThread
    \/ \E c \in Conns : HandlerThread(c)
    \/ StopThread
    \/ BroadcastThread

SpecSrv == InitSrv /\ [][NextSrv]_vars

\* the same session with no broadcast and a start that succeeds
NextStop ==
    \/ NetStart("ok")
    \/ StopFlag
    \/ \E c \in Conns : ConnectListening(c, NameOf(c))
    \/ Disconnect(Leaver)
    \/ AcceptThread
    \/ \E c \in Conns : HandlerThread(c)
    \/ StopThread

SpecStop == InitSrv /\ [][NextStop]_vars

\* every thread that can take a step is scheduled; what the callers and
\* the clients do is up to them
FairSpecStop ==
    /\ SpecStop
    /\ WF_vars(AcceptThread)
    /\ \A c \in Conns : WF_vars(HandlerThread(c))
    /\ WF_vars(StopThread)

\* one connection and the two threads that write to its socket, each
\* sendall going out in one send() call or in two
InitSend == InitSrv

NextSend ==
    \/ NetStart("ok")
    \/ ConnectListening(WireConn, NameOf(WireConn))
    \/ AcceptTest
    \/ AcceptReturn(WireConn)
    \/ AcceptAppend
    \/ AcceptInfo
    \/ AcceptSpawn
    \/ WelcomeSend(WireConn)
    \/ WelcomeFirst(WireConn)
    \/ WelcomeRest(WireConn)
    \/ HandlerTest(WireConn)
    \/ RecvMessage(WireConn, Len(sock_in[WireConn]))
    \/ \E audio \in PcmBlocks : BroadcastCall(audio)
    \/ BroadcastLock
    \/ \E how \in {"sent", "part"} : BroadcastSend(how)
    \/ BroadcastSendRest("sent")
    \/ BroadcastRemove
    \/ BroadcastForget

SpecSend == InitSend /\ [][NextSend]_vars

(***************************************************************************)
(* Properties.                                                             *)
(***************************************************************************)
InLoop(w) == workers[w].pc \in {"test", "read", "write", "tap"}

\* the sequence numbers of the blocks in a log
RECURSIVE Seqs(_)
Seqs(log) == IF log = << >> THEN << >> ELSE << log[1].seq >> \o Seqs(Tail(log))

\* position of the first strip (or sink) that names device d
FirstAt(d, devices) == CHOOSE k \in 1..Len(devices) :
                          devices[k] = d /\ \A j \in 1..(k - 1) : devices[j] # d

\* the sink configuration the caller gave for device d: its first occurrence
ConfiguredFor(d) ==
    LET found == Matched(output_strips)
    IN  found[FirstAt(d, SeqMap(found, "device"))]

\* ceil(delay_ms / block_duration) at the given rate
DelayBlocks(delay_ms, rate) ==
    (delay_ms * rate + 1000 * BUFFER_SIZE - 1) \div (1000 * BUFFER_SIZE)

\* n blocks of silence followed by captured blocks 0 .. k-n-1
DelayedSeqs(n, k) == [j \in 1..k |-> IF j <= n THEN -1 ELSE j - n - 1]

\* C1: after K captured blocks have been written out (K block durations
\* exceeding every configured delay, no write having failed), each sink has
\* been written ceil(d/block) silent blocks followed by captured blocks
\* 0 .. K - ceil(d/block) - 1, d being the delay configured for that sink.
C1_DelayedSequence ==
    \A w \in Slots :
       LET me == workers[w]
           K == me.nread
           streams == me.out_streams
       IN  ( /\ me.pc = "test"
             /\ K > 0
             /\ me.wfails = 0
             /\ \A k \in 1..Len(streams) :
                   K * BUFFER_SIZE * 1000 >
                      ConfiguredFor(streams[k].device).delay * me.sample_rate )
           => \A k \in 1..Len(streams) :
                 Seqs(streams[k].log) =
                    DelayedSeqs(DelayBlocks(ConfiguredFor(streams[k].device).delay,
                                            me.sample_rate), K)

\* C2: a start() issued while a worker exists or stop() has not returned is
\* rejected without side effect: no new worker, and the engine's sink list,
\* gains and delays stay as they were; so there is never more than one worker.
C2_AlreadyRunning ==
    /\ [](Cardinality(LiveWorkers) <= 1)
    /\ [][ (LiveWorkers # {} \/ caller_pc = "joining")
              => (LiveWorkers' \subseteq LiveWorkers /\ UNCHANGED engine_fields) ]_vars

\* C3: once the worker has ended (whatever ended it) the running flag is
\* false, without a call of stop().
C3_IdleAfterWorkerExit == (LiveWorkers = {}) => ~is_running

\* C5: the loop is never entered, and no block is read, with no open sink.
C5_NoUsableSinks ==
    \A w \in Slots : InLoop(w) => workers[w].out_streams # << >>

\* C6: a session has at most one open stream per endpoint index, and what
\* is written to it uses the gain of the first occurrence of that index in
\* the sinks handed to start.
C6_DuplicatesCollapse ==
    \A w \in Slots :
       LET streams == workers[w].out_streams
       IN  /\ \A j, k \in 1..Len(streams) :
                 j # k => streams[j].device # streams[k].device
           /\ \A k \in 1..Len(streams) :
                 InSeq(streams[k].device, output_indices) =>
                    \A n \in 1..Len(streams[k].log) :
                       \E x \in CaptureSamples :
                          streams[k].log[n].sample =
                             EmittedSample(x, volumes[FirstAt(streams[k].device,
                                                              output_indices)])

\* the engine fields a press of the button stores for the strips it read
FieldsOf(strips) ==
    [ indices |-> Dedup(SeqMap(Matched(strips), "device")),
      volumes |-> SeqMap(Matched(strips), "volume"),
      delays  |-> SeqMap(Matched(strips), "delay") ]

\* C4: start() then stop() leaves the engine Idle (flag false, no worker
\* left), and whenever the engine runs, it runs one worker, with the
\* parameters of the latest start only: its streams are on endpoints of that
\* start's list and every block written carries a gain of that start.
C4_StartStopCycles ==
    /\ (caller_pc = "ready" /\ ~is_running) => LiveWorkers = {}
    /\ LiveWorkers # {} => LiveWorkers = {thread}
    /\ is_running =>
          /\ output_indices = FieldsOf(output_strips).indices
          /\ volumes = FieldsOf(output_strips).volumes
          /\ delays = FieldsOf(output_strips).delays
    /\ \A w \in Slots :
          LET streams == workers[w].out_streams
          IN  \A k \in 1..Len(streams) :
                 /\ InSeq(streams[k].device, output_indices)
                 /\ \A n \in 1..Len(streams[k].log) :
                       \E x \in CaptureSamples :
                          streams[k].log[n].sample = EmittedSample(x, volumes[k])

\* Idle again: a start has made a thread, stop has cleared the flag and joined
C4_Witness ==
    /\ caller_pc = "ready"
    /\ ~is_running
    /\ thread # NoThread
    /\ LiveWorkers = {}
    /\ output_indices # << >>

\* C7: for every volume 0..100 and every 16-bit sample the emitted sample is
\* within one LSB of sample * volume / 100 and is a 16-bit value; volume 100
\* passes the sample through and volume 0 emits 0.
C7_GainStage ==
    gain_case.done =>
       LET x == gain_case.sample
           g == gain_case.volume
           y == gain_case.out
       IN  /\ y \in -32768..32767
           /\ Abs(100 * y - x * g) <= 100
           /\ (g = 100 => y = x)
           /\ (g = 0 => y = 0)

\* 100 * 0.29 is 28.999999999999996 as a double: 28 is emitted, one LSB under 29
C7_Witness ==
    /\ gain_case.done
    /\ gain_case.sample = 100
    /\ gain_case.volume = 29
    /\ gain_case.out = 28

Increasing(seqs) == \A j, k \in 1..Len(seqs) : j < k => seqs[j] < seqs[k]

\* C8: in one run every sink and the tap are handed the blocks in capture
\* order, none twice; within an iteration the sinks come first and all get
\* the block just read, the tap last; sinks with the same configured delay
\* have been handed the same blocks whenever an iteration is complete.
C8_CaptureOrder ==
    \A w \in Slots :
       LET me == workers[w]
           streams == me.out_streams
           handed(log) == { log[n].seq : n \in 1..Len(log) }
       IN  /\ \A k \in 1..Len(streams) :
                 /\ Increasing(Seqs(streams[k].log))
                 /\ handed(streams[k].log) \subseteq 0..(me.nread - 1)
           /\ Increasing(Seqs(me.tap))
           /\ handed(me.tap) \subseteq 0..(me.nread - 1)
           /\ me.pc \in {"write", "tap"} =>
                 /\ me.data.seq = me.nread - 1
                 /\ me.data.seq \notin handed(me.tap)
           /\ me.pc = "write" =>
                 \A k \in me.i..Len(streams) : me.data.seq \notin handed(streams[k].log)
           /\ (me.pc \in {"tap", "test", "read"} /\ me.wfails = 0) =>
                 \A j, k \in 1..Len(streams) :
                    ConfiguredFor(streams[j].device).delay =
                       ConfiguredFor(streams[k].device).delay
                    => Seqs(streams[j].log) = Seqs(streams[k].log)

\* two sinks with the same delay and the tap, after two whole iterations
C8_Witness ==
    \E w \in Slots :
       LET me == workers[w]
       IN  /\ me.pc = "test"
           /\ Len(me.out_streams) = 2
           /\ ConfiguredFor(me.out_streams[1].device).delay =
                 ConfiguredFor(me.out_streams[2].device).delay
           /\ Seqs(me.out_streams[1].log) = << 0, 1 >>
           /\ Seqs(me.out_streams[2].log) = << 0, 1 >>
           /\ Seqs(me.tap) = << 0, 1 >>

\* C9: once stop() has cleared the flag it returns (threads being scheduled
\* and device calls returning); a worker that reaches the loop test with the
\* flag cleared reads no further block, so at most the block already under
\* way is read; and between the return of stop() and the next start no
\* worker reads or writes anything.
C9_StopTerminates ==
    /\ (caller_pc = "joining") ~> (caller_pc = "ready")
    /\ [][ \A w \in Slots :
              (~is_running /\ workers[w].pc = "test") => workers'[w].pc # "read" ]_vars
    /\ [][ (caller_pc = "ready" /\ ~is_running /\ ~is_running') => workers' = workers ]_vars

\* stop() is waiting in join while the worker, past the loop test, is about
\* to read its second block
C9_Witness ==
    /\ caller_pc = "joining"
    /\ ~is_running
    /\ thread # NoThread
    /\ workers[thread].pc = "read"
    /\ workers[thread].nread = 1

RECURSIVE Missing(_, _)
\* how many of the n blocks read so far are absent from the logs
Missing(streams, n) ==
    IF streams = << >> THEN 0
    ELSE (n - Len(streams[1].log)) + Missing(Tail(streams), n)

Devices(streams) == [k \in 1..Len(streams) |-> streams[k].device]

\* C10: a write that raises costs that one sink that one block and nothing
\* else: the worker goes on to the next sink or to the tap with the same
\* sinks; when an iteration's writes are over, exactly the failed writes are
\* missing from the sinks; and the tap is handed the block whenever the
\* server runs.
C10_WriteFailureNonFatal ==
    /\ [](\A w \in Slots :
             workers[w].pc \in {"tap", "test", "read"} =>
                Missing(workers[w].out_streams, workers[w].nread) = workers[w].wfails)
    /\ [][ \A w \in Slots :
              workers[w].pc = "write" =>
                 /\ workers'[w].pc \in {"write", "tap"}
                 /\ Devices(workers'[w].out_streams) = Devices(workers[w].out_streams) ]_vars
    /\ [][ \A w \in Slots :
              (workers[w].pc = "tap" /\ workers'[w].pc = "test"
                 /\ network_server /\ srv_is_running)
              => workers'[w].tap = Append(workers[w].tap, workers[w].data) ]_vars

\* the first sink failed on block 0 and was written block 1; the second sink
\* and the tap have both blocks
C10_Witness ==
    \E w \in Slots :
       LET me == workers[w]
       IN  /\ me.pc = "test"
           /\ me.wfails = 1
           /\ Len(me.out_streams) = 2
           /\ Seqs(me.out_streams[1].log) = << 1 >>
           /\ Seqs(me.out_streams[2].log) = << 0, 1 >>
           /\ Seqs(me.tap) = << 0, 1 >>

(***************************************************************************)
(* Properties of the wire, the server and the client receiver.             *)
(***************************************************************************)
\* C11: a connected client that has read every byte the server wrote to it
\* has on its jitter queue exactly the payloads of the audio packets written
\* to it, in the order of the broadcast_audio calls, whatever their bytes.
C11_WireRoundTrip ==
    \A c \in Conns :
       (is_connected[c] /\ Unread(c) = << >>) =>
           audio_queue[c] = Payloads(sock_out[c])

\* the buffer after the control path: the bytes up to the first newline
\* leave it only when they parse as JSON
CutLineIfJson(buf) ==
    IF \E k \in 1..Len(buf) : buf[k] = Newline
    THEN LET message_end == CHOOSE k \in 1..Len(buf) :
                               buf[k] = Newline /\ \A j \in 1..(k - 1) : buf[j] # Newline
         IN  IF JsonLoads(SubSeq(buf, 1, message_end - 1)).ok
             THEN SubSeq(buf, message_end + 1, Len(buf))
             ELSE buf
    ELSE buf

\* C16: on every recv the receiver removes the bytes up to the first newline
\* only if they parse as JSON, and parses what is left as length-prefixed
\* frames, so audio bytes equal to 0x0A are enqueued with their packet.
C16_ReceiveParser ==
    [][ \A c \in Conns :
          rd'[c] > rd[c] =>
             LET data == SubSeq(Unread(c), 1, rd'[c] - rd[c])
                 want == ParseFrames(CutLineIfJson(buffer[c] \o data), audio_queue[c])
             IN  /\ buffer'[c] = want.buffer
                 /\ audio_queue'[c] = want.queue ]_vars

\* a step in which the handler of c returns from recv with data
HandlerRead(c) ==
    /\ handlers[c] = "recv"
    /\ Len(sock_in'[c]) < Len(sock_in[c])
    /\ c \notin srv_closed'

Consumed(c) == SubSeq(sock_in[c], 1, Len(sock_in[c]) - Len(sock_in'[c]))

\* the newline-terminated lines of b; bytes after the last newline are not a line
RECURSIVE SplitLines(_)
SplitLines(b) ==
    IF \E k \in 1..Len(b) : b[k] = Newline
    THEN LET e == CHOOSE k \in 1..Len(b) :
                     b[k] = Newline /\ \A j \in 1..(k - 1) : b[j] # Newline
         IN  << SubSeq(b, 1, e - 1) >> \o SplitLines(SubSeq(b, e + 1, Len(b)))
    ELSE << >>

WholeLines(b) == b # << >> /\ b[Len(b)] = Newline

IsPing(line) == JsonLoads(line).ok /\ JsonLoads(line).msg.type = "ping"

RECURSIVE Pongs(_)
Pongs(lines) ==
    IF lines = << >> THEN << >>
    ELSE (IF IsPing(Head(lines))
          THEN << [kind |-> "json", bytes |-> Line(Msg("pong"))] >> ELSE << >>)
         \o Pongs(Tail(lines))

\* C12: when a send of broadcast_audio raises, that client's socket is closed
\* and the client leaves both the list and the metadata in the same step; the
\* other listed clients are written the packet of this call; list_clients()
\* then reports exactly the remaining clients.
C12_DropOnFailedSend ==
    [][ broadcast_log' # broadcast_log =>
          LET bytes == broadcast_log'[Len(broadcast_log')]
              failed == Listed(clients) \ Listed(clients')
              kept == Listed(clients) \ failed
              listing == get_connected_clients'
          IN  /\ \A c \in failed :
                    /\ c \in srv_closed'
                    /\ c \notin DOMAIN client_info'
                    /\ sock_out'[c] = sock_out[c]
              /\ \A c \in kept :
                    sock_out'[c] = Append(sock_out[c], [kind |-> "audio",
                                                        bytes |-> Pack(Len(bytes)) \o bytes])
              /\ \A c \in Conns \ Listed(clients) : sock_out'[c] = sock_out[c]
              /\ Len(clients') = Cardinality(kept)
              /\ Len(listing) = Cardinality(kept)
              /\ \A c \in kept :
                    \E k \in 1..Len(listing) :
                        listing[k] = [name |-> client_info[c].name,
                                      address |-> Address(c)[1],
                                      connected_at |-> client_info[c].connected_at]
              /\ handlers' = handlers ]_vars

\* a broadcast dropped one client, whose handler has not noticed yet, and
\* wrote the packet to the other
C12_Witness ==
    \E c, d \in Conns :
       /\ c # d
       /\ Len(broadcast_log) = 1
       /\ c \in srv_closed /\ handlers[c] = "recv" /\ c \notin Listed(clients)
       /\ d \in Listed(clients)
       /\ Payloads(sock_out[d]) = broadcast_log
       /\ Len(get_connected_clients) = 1

\* C13: every ping line a handler receives from a client that is still
\* connected is answered by one pong on that client's socket, nothing is
\* written to another client, and the client stays connected.
C13_PingPong ==
    [][ \A c \in Conns :
          (HandlerRead(c) /\ ~peer_closed[c]
             /\ \E k \in 1..Len(SplitLines(Consumed(c))) :
                   IsPing(SplitLines(Consumed(c))[k])) =>
              /\ sock_out'[c] = sock_out[c] \o Pongs(SplitLines(Consumed(c)))
              /\ \A d \in Conns \ {c} : sock_out'[d] = sock_out[d]
              /\ handlers'[c] = "recv"
              /\ c \in Listed(clients') ]_vars

Reported(c, n) ==
    \E k \in 1..Len(get_connected_clients) :
       /\ get_connected_clients[k].address = Address(c)[1]
       /\ get_connected_clients[k].name = n

\* C14: once a client has sent set_name N and stays connected to a running
\* server, list_clients() comes to report name N for it; a handler that
\* reads from one client changes no other client's record.
C14_SetName ==
    /\ \A c \in Conns :
          (ctl_sent[c] # << >> /\ ~peer_closed[c])
             ~> (\/ Reported(c, NameOf(c))
                 \/ peer_closed[c]
                 \/ ~srv_is_running)
    /\ [][ \A c \in Conns :
             HandlerRead(c) =>
                \A d \in Conns \ {c} :
                   /\ (d \in DOMAIN client_info) = (d \in DOMAIN client_info')
                   /\ d \in DOMAIN client_info => client_info'[d] = client_info[d] ]_vars

\* the effect of handling the lines in order
RECURSIVE HandleAll(_, _, _)
HandleAll(c, lines, acc) ==
    IF lines = << >> THEN acc
    ELSE LET h == HandleClientMessage(c, JsonLoads(Head(lines)).msg, acc.info)
         IN  HandleAll(c, Tail(lines),
                       [info |-> h.info,
                        out |-> acc.out \o [k \in 1..Len(h.reply) |->
                                               [kind |-> "json",
                                                bytes |-> Line(h.reply[k])]]])

\* C15: what a recv returns never ends the connection of a client that
\* sends well-formed lines; when it returns whole lines, two or more of them
\* included, every message is handled once, in order.
C15_ControlFraming ==
    [][ \A c \in Conns :
          (HandlerRead(c) /\ ~peer_closed[c]) =>
              /\ handlers'[c] = "recv"
              /\ WholeLines(Consumed(c)) =>
                    LET all == HandleAll(c, SplitLines(Consumed(c)),
                                         [info |-> client_info, out |-> << >>])
                    IN  /\ client_info' = all.info
                        /\ sock_out'[c] = sock_out[c] \o all.out ]_vars

Analysed == cal.pc = "done" /\ cal.recorded_audio # << >>

\* C17: a run whose correlation peak lies below 0 ms or above 5000 ms ends
\* in the failure value; every other result is within 0..5000 ms.
C17_OutOfRangeFails ==
    Analysed =>
       LET found == detect_delay_cross_correlation(generate_calibration_tone,
                                                   cal.recorded_audio)
       IN  /\ (found.delay_ms < 0 \/ found.delay_ms > MaxDelayMs) => ~cal.result.ok
           /\ cal.result.ok => cal.result.delay_ms \in 0..MaxDelayMs

\* C18: a run in which the sink or the recording endpoint did not open ends
\* in the failure value, with an error among the progress messages.
C18_DeviceOpenFailure ==
    (cal.pc = "done" /\ (~cal.play_opens \/ ~cal.rec_opens)) =>
       /\ ~cal.result.ok
       /\ \E k \in 1..Len(cal.messages) :
             cal.messages[k] \in {"ERROR: Recording failed",
                                  "ERROR: Could not detect delay"}

\* C19: a run on devices that open, with the sink heard sink_delay later,
\* reports that delay to within 1 ms.
C19_KnownDelay ==
    (cal.pc = "done" /\ cal.play_opens /\ cal.rec_opens) =>
       /\ cal.result.ok
       /\ Abs(cal.result.delay_ms - cal.sink_delay * TickMs) <= 1


\* C21: every block written to a sink stream carries the gain configured on
\* the strip of that stream's own endpoint (first strip naming it), also
\* when an earlier sink of the list was dropped at open or the strips named
\* an endpoint twice.
C21_GainAssociation ==
    \A w \in Slots :
       LET streams == workers[w].out_streams
       IN  \A k \in 1..Len(streams) :
              \A n \in 1..Len(streams[k].log) :
                 \E x \in CaptureSamples :
                    streams[k].log[n].sample =
                       EmittedSample(x, ConfiguredFor(streams[k].device).volume)


\* C22: whenever the running flag is true the capture stream of the session
\* is open and every sink of the engine's list has an open stream, and while
\* the flag stays true the sink list and the gains do not change.
C22_SessionInvariant ==
    /\ [](is_running =>
            /\ thread # NoThread
            /\ workers[thread].in_stream
            /\ Devices(workers[thread].out_streams) = output_indices)
    /\ [][ (is_running /\ is_running') => UNCHANGED << output_indices, volumes >> ]_vars


C24_FormatPropagation ==
    \A w \in Slots :
       LET me == workers[w]
       IN  me.in_stream =>
              \A k \in 1..Len(me.out_streams) :
                 /\ me.out_streams[k].rate = me.sample_rate
                 /\ me.out_streams[k].channels = me.channels

\* C25: the tap is handed blocks at the end of an iteration only, after the
\* sink writes: there, with a server attached and running, it is handed the
\* block just read, once and as captured (no gain applied); with no server
\* attached or the server not running it is handed nothing.
C25_TapContent ==
    /\ [](\A w \in Slots :
            \A n \in 1..Len(workers[w].tap) :
               workers[w].tap[n].sample \in CaptureSamples)
    /\ [][ \A w \in Slots :
              LET me == workers[w]
                  next == workers'[w]
              IN  /\ (me.pc = "tap" /\ next # me) =>
                        next.tap = IF network_server /\ srv_is_running
                                   THEN Append(me.tap, NextBlock(me.nread - 1,
                                                                 me.data.sample))
                                   ELSE me.tap
                  /\ me.pc # "tap" => next.tap \in { me.tap, << >> } ]_vars

\* one iteration: the sink got the block at half gain, the tap as captured
C25_Witness ==
    \E w \in Slots :
       LET me == workers[w]
       IN  /\ me.pc = "test"
           /\ me.nread = 1
           /\ network_server /\ srv_is_running
           /\ me.tap = << [seq |-> 0, sample |-> 10000] >>
           /\ Len(me.out_streams) = 1
           /\ me.out_streams[1].log = << [seq |-> 0, sample |-> 5000] >>

(***************************************************************************)
(* Properties of the server's threads.                                     *)
(***************************************************************************)
\* what the server writes to a client socket
ServerMessages ==
    { Line(Msg("welcome")), Line(Msg("pong")) } \cup { Packet(b) : b \in PcmBlocks }

\* the send() calls on one socket, message after message: each message in
\* one call, or its first part directly followed by its rest (the rest of
\* the last one may still be to come)
RECURSIVE Contiguous(_)
Contiguous(writes) ==
    IF writes = << >> THEN TRUE
    ELSE \/ /\ Head(writes).bytes \in ServerMessages
            /\ Contiguous(Tail(writes))
         \/ \E m \in ServerMessages :
               /\ Head(writes).bytes = FirstSend(m)
               /\ \/ Len(writes) = 1
                  \/ /\ writes[2].bytes = LaterSend(m)
                     /\ Contiguous(Tail(Tail(writes)))

\* C26: on every client socket the bytes of each message the server wrote
\* are contiguous: a control line of the handler thread and an audio packet
\* of broadcast_audio are never interleaved.
C26_WriteAtomicity == \A c \in Conns : Contiguous(sock_out[c])

\* C27: whenever no thread holds the server lock, the sockets in clients
\* are exactly the keys of client_info, no socket is listed twice, and no
\* listed socket has been closed by the server.
C27_Membership ==
    lock = Free =>
       /\ Listed(clients) = DOMAIN client_info
       /\ \A j, k \in 1..Len(clients) : j # k => clients[j] # clients[k]
       /\ Listed(clients) \cap srv_closed = {}

\* the lock is free, one client has left through its handler or a failed
\* broadcast and has been closed, another one is still listed
C27_Witness ==
    /\ lock = Free
    /\ srv_is_running
    /\ Len(clients) = 1
    /\ \E c \in Conns \ Listed(clients) : c \in srv_closed /\ handlers[c] = "done"

\* C28: a handler thread that has ended has left its client out of clients
\* and client_info and its socket closed, whoever removed the client first;
\* it ends through its close (the removal raises nothing), and its cleanup
\* leaves the running flag and the other clients' entries, records and
\* sockets as they were.
C28_DisconnectCleanup ==
    /\ [](\A c \in Conns :
            handlers[c] = "done" =>
               /\ c \notin Listed(clients)
               /\ c \notin DOMAIN client_info
               /\ c \in srv_closed)
    /\ [][ \A c \in Conns :
              (handlers[c] \in {"finally", "locked", "close"}
                 /\ handlers'[c] # handlers[c]) =>
                 /\ handlers'[c] = "done" => handlers[c] = "close"
                 /\ srv_is_running' = srv_is_running
                 /\ Without(clients', {c}) = Without(clients, {c})
                 /\ Forget(client_info', {c}) = Forget(client_info, {c})
                 /\ srv_closed' \ {c} = srv_closed \ {c}
                 /\ \A d \in Conns \ {c} : handlers'[d] = handlers[d] ]_vars

\* the client of one connection has closed it and the handler has ended
\* after the empty read; the server runs and the other client is listed
C28_Witness ==
    /\ srv_is_running
    /\ peer_closed[Leaver]
    /\ handlers[Leaver] = "done"
    /\ Leaver \in srv_closed
    /\ \E d \in Conns \ {Leaver} :
          /\ d \in Listed(clients)
          /\ d \in DOMAIN client_info
          /\ d \notin srv_closed
          /\ handlers[d] = "recv"

\* nothing of the server is left: both collections empty, the accept thread
\* and every handler thread ended, every socket that got a handler closed
Quiescent ==
    /\ clients = << >>
    /\ DOMAIN client_info = {}
    /\ accept_thread.pc = "ended"
    /\ \A c \in Conns :
          /\ handlers[c] \in {"none", "done"}
          /\ handlers[c] = "done" => c \in srv_closed

\* C29: once stop() has been called, threads being scheduled, the server
\* becomes quiescent, also when the accept thread holds a freshly accepted
\* socket while stop() runs.
C29_StopQuiescence == (stopper # "none") ~> Quiescent

\* stop() has returned and a socket that accept() had returned before is
\* registered after the clear, open, its handler thread not ended
C29_Witness ==
    /\ stopper = "returned"
    /\ \E c \in Conns :
          /\ c \in Listed(clients)
          /\ c \in DOMAIN client_info
          /\ c \notin srv_closed

\* C30: a start whose socket(), bind() or listen() raised has returned
\* (False, None) and left the running flag false and no accept thread; a
\* start that succeeds returns (True, local IP), sets the flag and has
\* started the accept thread.
C30_StartFailure ==
    /\ [](start_result = Failed =>
            /\ ~srv_is_running
            /\ accept_thread.pc = "none"
            /\ server_socket # "listening")
    /\ [](start_result.ok =>
            /\ start_result.ip = LocalIp
            /\ accept_thread.pc # "none"
            /\ server_socket # "none")
    /\ [][ (start_result' # start_result) =>
              /\ ~srv_is_running
              /\ start_result' \in { Failed,
                                     [called |-> TRUE, ok |-> TRUE, ip |-> LocalIp] }
              /\ srv_is_running' = start_result'.ok
              /\ (accept_thread'.pc = "test") = start_result'.ok ]_vars

\* bind() or listen() has raised: start has returned (False, None)
C30_Witness ==
    /\ start_result = Failed
    /\ server_socket = "unbound"
    /\ ~srv_is_running

(***************************************************************************)
(* NetworkClient, the receiving side.                                      *)
(***************************************************************************)
\* audio payloads without the newline byte, the empty one included
ChunkBlocks == { << >>, << 1, 0 >>, << 2, 0, 3, 0 >> }

RECURSIVE AudioStreams(_)
AudioStreams(n) ==
    IF n = 0 THEN { << >> }
    ELSE AudioStreams(n - 1) \cup
         { Append(s, [kind |-> "audio", bytes |-> Packet(b)]) :
               s \in { t \in AudioStreams(n - 1) : Len(t) = n - 1 }, b \in ChunkBlocks }

\* the receive loop of a connected client (lines 124-167) on a stream the
\* server wrote with broadcast_audio only, split by recv in every way
InitChunk ==
    /\ InitEngine
    /\ network_server = FALSE
    /\ gain_case = NoGainCase
    /\ clients = << >>
    /\ client_info = NoInfo
    /\ handlers = [c \in Conns |-> "none"]
    /\ srv_closed = {}
    /\ sock_in = [c \in Conns |-> << >>]
    /\ sock_out \in { [c \in Conns |-> IF c = WireConn THEN s ELSE << >>] :
                          s \in AudioStreams(MaxBroadcasts) }
    /\ broadcast_log = << >>
    /\ peer_closed = [c \in Conns |-> FALSE]
    /\ is_connected = [c \in Conns |-> c = WireConn]
    /\ buffer = [c \in Conns |-> << >>]
    /\ audio_queue = [c \in Conns |-> << >>]
    /\ rd = [c \in Conns |-> 0]
    /\ ctl_sent = [c \in Conns |-> << >>]
    /\ InitThreads
    /\ receiver = [c \in Conns |-> IF c = WireConn THEN "running" ELSE "none"]
    /\ is_playing = [c \in Conns |-> FALSE]
    /\ output_stream = [c \in Conns |-> FALSE]
    /\ players = [c \in Conns |-> [t \in 1..MaxPlays |-> NoPlayer]]
    /\ written = [c \in Conns |-> << >>]
    /\ enqueued = [c \in Conns |-> << >>]
    /\ cal = NoCal

NextChunk == \E k \in 1..(MaxBroadcasts * 8) : ClientRecv(WireConn, k)

SpecChunk == InitChunk /\ [][NextChunk]_vars

\* the payloads of the writes that lie wholly within the first n bytes
RECURSIVE Arrived(_, _)
Arrived(writes, n) ==
    IF writes = << >> \/ Len(Head(writes).bytes) > n THEN << >>
    ELSE Payloads(<< Head(writes) >>) \o Arrived(Tail(writes), n - Len(Head(writes).bytes))

\* C31: on an audio-only stream without newline bytes the payloads the
\* client has enqueued are, however recv split the bytes, the payloads of
\* the frames that have arrived whole, in the order sent: a frame that has
\* arrived in part is not enqueued, and once every byte is read the queue
\* is the sequence of payloads the server sent
C31_ChunkingIndependence ==
    /\ audio_queue[WireConn] = Arrived(sock_out[WireConn], rd[WireConn])
    /\ rd[WireConn] = Len(Wire(WireConn)) =>
           audio_queue[WireConn] = Payloads(sock_out[WireConn])

\* one frame enqueued while the next has arrived up to a part of its payload
C31_Witness ==
    /\ Len(sock_out[WireConn]) = 2
    /\ Len(audio_queue[WireConn]) = 1
    /\ Len(buffer[WireConn]) > 4

\* one client that connects, receives, plays, stops and disconnects, with
\* the server at the other end; recv returns everything that has arrived
PlayBlocks == { << 1, 0 >>, << 2, 0 >> }
PlayOutcomes == {"ok", "raise"}

PlaybackThread(c) ==
    \E t \in 1..MaxPlays : PlayTest(c, t) \/ PlayPop(c, t) \/ PlayWrite(c, t)

ReceiveThread(c) ==
    \/ ClientRecv(c, Len(Unread(c)))
    \/ ClientRecvEof(c)
    \/ ReceiverEnds(c)

NextPlay ==
    \/ ServerStart
    \/ ServerStop
    \/ Connect(WireConn, NameOf(WireConn))
    \/ Accept(WireConn)
    \/ HandlerWelcome(WireConn)
    \/ HandlerRecv(WireConn, Len(sock_in[WireConn]))
    \/ \E b \in PlayBlocks : BroadcastAudio(b, {})
    \/ ReceiveThread(WireConn)
    \/ \E outcome \in PlayOutcomes : StartPlayback(WireConn, outcome)
    \/ StopPlayback(WireConn)
    \/ PlaybackThread(WireConn)
    \/ Disconnect(WireConn)

SpecPlay == InitNet /\ [][NextPlay]_vars

RECURSIVE InOrder(_, _)
\* the sequence w is the sequence e with some of its elements left out
InOrder(w, e) ==
    IF w = << >> THEN TRUE
    ELSE IF e = << >> THEN FALSE
    ELSE IF Head(w) = Head(e) THEN InOrder(Tail(w), Tail(e))
    ELSE InOrder(w, Tail(e))

\* C32: what has been written to the output stream is, in order, what the
\* receive loop enqueued with some packets left out: no packet written
\* before one enqueued ahead of it, none twice, none that was not enqueued
C32_QueueFifo == InOrder(written[WireConn], enqueued[WireConn])

\* C33: the jitter queue has a fixed capacity; here, one below the number
\* of packets the server sends
C33_QueueBounded == Len(audio_queue[WireConn]) < MaxBroadcasts

\* C34: at most one playback thread of a client is alive at any time
C34_SinglePlaybackWorker == Cardinality(Playing(WireConn)) <= 1

\* the end of a connection: the client connects, receives, starts playback
\* and disconnects, and the server stops; the playback thread is left out
NextQuit ==
    \/ ServerStart
    \/ ServerStop
    \/ Connect(WireConn, NameOf(WireConn))
    \/ Accept(WireConn)
    \/ HandlerWelcome(WireConn)
    \/ \E b \in SrvBlocks : BroadcastAudio(b, {})
    \/ ReceiveThread(WireConn)
    \/ \E outcome \in PlayOutcomes : StartPlayback(WireConn, outcome)
    \/ Disconnect(WireConn)

SpecQuit == InitNet /\ [][NextQuit]_vars

\* the receive thread is scheduled
FairSpecQuit == SpecQuit /\ WF_vars(ReceiveThread(WireConn))

\* C35: the step in which disconnect closes the client's socket leaves
\* is_connected and is_playing false and no output stream open, and the
\* receive thread ends afterwards; when the server has closed the connection
\* the receive thread ends with is_connected false; an ended receive thread
\* enqueues nothing
C35_ClientTermination ==
    /\ [][ (~peer_closed[WireConn] /\ peer_closed'[WireConn]) =>
               /\ ~is_connected'[WireConn]
               /\ ~is_playing'[WireConn]
               /\ ~output_stream'[WireConn] ]_vars
    /\ ( /\ receiver[WireConn] = "running"
         /\ peer_closed[WireConn] \/ WireConn \in srv_closed )
           ~> (receiver[WireConn] = "ended")
    /\ [](receiver[WireConn] = "ended" => ~is_connected[WireConn])
    /\ [][ receiver[WireConn] = "ended" =>
               enqueued'[WireConn] = enqueued[WireConn] ]_vars

\* disconnect has returned on a client that had received packets and
\* started playback, and its receive thread has ended
C35_Witness ==
    /\ peer_closed[WireConn]
    /\ receiver[WireConn] = "ended"
    /\ enqueued[WireConn] # << >>
    /\ Playing(WireConn) # {}

(***************************************************************************)
(* Properties of calibrate_device as a whole.                              *)
(***************************************************************************)
\* C36: calibrate_device ends by returning, never by raising to its caller,
\* and is_calibrating is false once it has ended
C36_NeverRaises == cal.pc = "done" => ~cal.raised /\ ~cal.is_calibrating

\* C37: the tone is played only with the recorder thread started and the
\* warm-up wait over, and the analysis begins only once the recorder thread
\* has ended and been joined; recorded_audio is read in that step only
C37_CalibrationOrder ==
    [][ /\ (cal.played = "no" /\ cal'.played # "no") =>
               cal.recording # "no" /\ cal.pc = "sleep"
        /\ cal'.pc = "analyse" => cal'.recording = "ended"
        /\ cal'.recorded_audio # cal.recorded_audio =>
               cal.recording = "open" /\ cal'.recording = "ended" ]_vars

\* a run that played the tone, recorded it and returned an estimate
C37_Witness ==
    /\ cal.pc = "done"
    /\ cal.played = "yes"
    /\ cal.recording = "ended"
    /\ cal.recorded_audio # << >>
    /\ cal.result # Failure

====
